---- MODULE Spec2Model ----
(***************************************************************************)
(* Flip sequences of veering triangulations (veerer/flip_sequence.py).     *)
(*                                                                         *)
(* A triangulation is a record [n, fp, ep, colouring] over the half-edges  *)
(* 0..n-1; a flip sequence is a record [start, end, flips, relabelling].   *)
(* Arrays are functions on 0..n-1, lists are sequences.  A call that can   *)
(* raise returns a record [exc, val]: exc is the name of the exception     *)
(* ("" when the call returns) and val the value returned, or the state the *)
(* object is left in when the call raises.                                 *)
(***************************************************************************)
EXTENDS Integers, Sequences, FiniteSets, TLC

VARIABLES F, last, io, res, fam

vars == <<F, last, io, res, fam>>

(***************************************************************************)
(* Bounds of the model.                                                    *)
(***************************************************************************)
\* longest flip log that flip, *= and * may make
MaxFlips == 3
\* longest flip log that ** may make
MaxPowFlips == 4
\* largest exponent passed to **
MaxPow == 3
\* longest list of (edge, colour) pairs rendered to a string
MaxSeqLen == 2
\* largest edge number in a rendered list
MaxEdge == 12

(***************************************************************************)
(* veerer/constants.py                                                     *)
(***************************************************************************)
RED == 1
BLUE == 2
PURPLE == 4
GREEN == 8

Colours == {RED, BLUE, PURPLE, GREEN}

None == "None"

Raise(e, v) == [exc |-> e, val |-> v]
Return(v) == [exc |-> "", val |-> v]

(***************************************************************************)
(* veerer/permutation.py                                                   *)
(***************************************************************************)
Array(t) == [i \in 0..(Len(t) - 1) |-> t[i + 1]]

perm_id(n) == [i \in 0..(n - 1) |-> i]

perm_check(p, n) ==
    /\ DOMAIN p = 0..(n - 1)
    /\ \A i \in 0..(n - 1) : p[i] \in 0..(n - 1)
    /\ \A i, j \in 0..(n - 1) : p[i] = p[j] => i = j

perm_is_one(p) == \A i \in DOMAIN p : p[i] = i

perm_preimage(p, j) == CHOOSE i \in DOMAIN p : p[i] = j

perm_invert(p, n) == [j \in 0..(n - 1) |-> CHOOSE i \in 0..(n - 1) : p[i] = j]

\* p1 then p2
perm_compose(p1, p2) == [i \in DOMAIN p1 |-> p2[p1[i]]]

RECURSIVE perm_pow(_, _)
perm_pow(p, k) ==
    IF k = 0 THEN [i \in DOMAIN p |-> i] ELSE perm_compose(perm_pow(p, k - 1), p)

\* res[p2[i]] = p2[p1[i]]
perm_conjugate(p1, p2) ==
    [j \in DOMAIN p1 |-> p2[p1[perm_preimage(p2, j)]]]

\* the list t moved by p: res[p[i]] = t[i]
perm_on_list(p, t) == [j \in DOMAIN t |-> t[perm_preimage(p, j)]]

(***************************************************************************)
(* veerer/veering_triangulation.py: the triangulation primitive            *)
(***************************************************************************)
Triangulation(fp, ep, cols) ==
    [n |-> Len(fp), fp |-> Array(fp), ep |-> Array(ep), colouring |-> Array(cols)]

num_edges(T) == Cardinality({i \in 0..(T.n - 1) : T.ep[i] >= i})

edge_colour(T, e) == T.colouring[e]

set_edge_colour(T, e, col) ==
    [T EXCEPT !.colouring = [i \in 0..(T.n - 1) |->
        IF i = e \/ i = T.ep[e] THEN col ELSE T.colouring[i]]]

\* the two triangles next to e are coloured (e, BLUE, RED)
is_forward_flippable(T, e) ==
    LET E == T.ep[e]
        a == T.fp[e]
        b == T.fp[a]
        c == T.fp[E]
        d == T.fp[c]
    IN  /\ T.colouring[a] = BLUE
        /\ T.colouring[b] = RED
        /\ T.colouring[c] = BLUE
        /\ T.colouring[d] = RED

forgot_forward_flippable_colour(T) ==
    [T EXCEPT !.colouring = [i \in 0..(T.n - 1) |->
        IF is_forward_flippable(T, i) THEN PURPLE ELSE T.colouring[i]]]

\* (e,a,b)(E,c,d) becomes (e,b,c)(E,d,a), the six assignments made in order
flip_faces(T, e) ==
    LET E == T.ep[e]
        a == T.fp[e]
        b == T.fp[a]
        c == T.fp[E]
        d == T.fp[c]
        f1 == [T.fp EXCEPT ![e] = b]
        f2 == [f1 EXCEPT ![b] = c]
        f3 == [f2 EXCEPT ![c] = e]
        f4 == [f3 EXCEPT ![a] = E]
        f5 == [f4 EXCEPT ![E] = d]
    IN  [f5 EXCEPT ![d] = a]

\* the four sides of the square about e
square_about_edge(T, e) ==
    {T.fp[e], T.fp[T.fp[e]], T.fp[T.ep[e]], T.fp[T.fp[T.ep[e]]]}

\* the faces and the colour of e after the flip
flipped(T, e, col) ==
    [T EXCEPT !.fp = flip_faces(T, e),
              !.colouring = [i \in 0..(T.n - 1) |->
                  IF i = e \/ i = T.ep[e] THEN col ELSE T.colouring[i]]]

\* in a reduced flip the sides that became forward flippable turn PURPLE
forgot_in_square(V, reduced, square) ==
    IF reduced
    THEN [V EXCEPT !.colouring = [i \in 0..(V.n - 1) |->
            IF (i \in square \/ V.ep[i] \in square) /\ is_forward_flippable(V, i)
            THEN PURPLE
            ELSE V.colouring[i]]]
    ELSE V

\* VeeringTriangulation.flip: raises on an edge that is not forward
\* flippable and on a colour other than RED and BLUE; the flip is reduced
\* when e is PURPLE
tri_flip(T, e, col) ==
    IF ~(e \in 0..(T.n - 1) /\ col \in {RED, BLUE} /\ is_forward_flippable(T, e))
    THEN Raise("ValueError", T)
    ELSE Return(forgot_in_square(flipped(T, e, col), T.colouring[e] = PURPLE,
                                 square_about_edge(T, e)))

\* VeeringTriangulation.relabel
tri_relabel(T, p) ==
    [T EXCEPT !.fp = perm_conjugate(T.fp, p),
              !.ep = perm_conjugate(T.ep, p),
              !.colouring = perm_on_list(p, T.colouring)]

\* VeeringTriangulation.swap(e): the two half-edges of e exchange their labels
tri_swap(T, e) ==
    tri_relabel(T, [perm_id(T.n) EXCEPT ![e] = T.ep[e], ![T.ep[e]] = e])

\* VeeringTriangulation.rotate: the quarter turn exchanges the colours
tri_rotate(T) ==
    [T EXCEPT !.colouring = [i \in 0..(T.n - 1) |->
        CASE T.colouring[i] = RED -> BLUE
          [] T.colouring[i] = BLUE -> RED
          [] T.colouring[i] = PURPLE -> GREEN
          [] OTHER -> PURPLE]]

(***************************************************************************)
(* veerer/flip_sequence.py: the flips written as a string.  A string is    *)
(* the sequence of its characters; the strings of this model hold digits,  *)
(* the minus sign, letters and blanks.                                     *)
(***************************************************************************)
Digits == <<"0", "1", "2", "3", "4", "5", "6", "7", "8", "9">>

\* "%d" % e
RECURSIVE decimal(_)
decimal(e) ==
    IF e < 0 THEN <<"-">> \o decimal(0 - e)
    ELSE IF e < 10 THEN <<Digits[e + 1]>>
    ELSE Append(decimal(e \div 10), Digits[(e % 10) + 1])

\* constants.colour_to_char
colour_to_char(col) ==
    CASE col = RED -> "R"
      [] col = BLUE -> "B"
      [] col = PURPLE -> "P"
      [] col = GREEN -> "G"

\* constants.colour_from_char
colour_from_char(c) ==
    CASE c = "R" -> Return(RED)
      [] c = "B" -> Return(BLUE)
      [] c = "P" -> Return(PURPLE)
      [] c = "G" -> Return(GREEN)
      [] OTHER -> Raise("ValueError", None)

\* sep.join(items)
RECURSIVE join(_, _)
join(sep, items) ==
    IF items = <<>> THEN <<>>
    ELSE IF Len(items) = 1 THEN items[1]
    ELSE items[1] \o sep \o join(sep, Tail(items))

\* the flips written one after the other, nothing between them
flip_sequence_to_string_unspaced(sequence) ==
    join(<<>>, [i \in 1..Len(sequence) |->
            decimal(sequence[i][1]) \o <<colour_to_char(sequence[i][2])>>])

\* flip_sequence_to_string(sequence)
flip_sequence_to_string(sequence) ==
    join(<<" ">>, [i \in 1..Len(sequence) |->
            decimal(sequence[i][1]) \o <<colour_to_char(sequence[i][2])>>])

\* s.split(): the words of s between blanks; word is the one being read
RECURSIVE split(_, _, _)
split(s, word, words) ==
    IF s = <<>>
    THEN IF word = <<>> THEN words ELSE Append(words, word)
    ELSE IF Head(s) = " "
    THEN split(Tail(s), <<>>, IF word = <<>> THEN words ELSE Append(words, word))
    ELSE split(Tail(s), Append(word, Head(s)), words)

RECURSIVE digits_value(_, _)
digits_value(s, acc) ==
    IF s = <<>>
    THEN acc
    ELSE digits_value(Tail(s), 10 * acc + (CHOOSE d \in 0..9 : Digits[d + 1] = Head(s)))

\* int(s) of a string of digits
natural(s) ==
    IF s = <<>> \/ \E i \in 1..Len(s) : \A d \in 1..10 : Digits[d] # s[i]
    THEN Raise("ValueError", None)
    ELSE Return(digits_value(s, 0))

negated(r) == IF r.exc # "" THEN r ELSE Return(0 - r.val)

\* int(s)
int(s) ==
    IF s # <<>> /\ Head(s) = "-" THEN negated(natural(Tail(s))) ELSE natural(s)

\* "(int(f[:-1]), colour_from_char(f[-1]))"
pair_of(e, col) ==
    IF e.exc # "" THEN e
    ELSE IF col.exc # "" THEN col
    ELSE Return(<<e.val, col.val>>)

\* the list of the pairs, or the first exception among them
RECURSIVE pairs_of(_, _)
pairs_of(items, acc) ==
    IF items = <<>> THEN Return(acc)
    ELSE IF items[1].exc # "" THEN items[1]
    ELSE pairs_of(Tail(items), Append(acc, items[1].val))

words_to_pairs(words) ==
    pairs_of([i \in 1..Len(words) |->
                pair_of(int(SubSeq(words[i], 1, Len(words[i]) - 1)),
                        colour_from_char(words[i][Len(words[i])]))], <<>>)

\* flip_sequence_from_string(s)
flip_sequence_from_string(s) == words_to_pairs(split(s, <<>>, <<>>))

(***************************************************************************)
(* veerer/flip_sequence.py: VeeringFlipSequence                            *)
(***************************************************************************)
\* the relabelling argument left out
NoRelabelling == <<>>

any_colour(T, col) == \E i \in 0..(T.n - 1) : T.colouring[i] = col

\* "E = ep[e]; if E < e: e = E"
canonical(ep, e) == IF ep[e] < e THEN ep[e] ELSE e

\* a flip logged under the label its edge has in end
logged_edge_of_end(S, e) == e

\* the preimage logged as it is, whichever half-edge of the pair it is
logged_edge_raw(S, e) ==
    IF S.relabelling[e] # e
    THEN perm_preimage(S.relabelling, e)
    ELSE e

\* flip, lines 477-482: the flip pushed to the left of the relabelling
logged_edge(S, e) ==
    IF S.relabelling[e] # e
    THEN canonical(S.end.ep, perm_preimage(S.relabelling, e))
    ELSE e

\* flip, lines 476 and 483: r is what self._end.flip made
flip_log(S, r, triple) ==
    IF r.exc # ""
    THEN Raise(r.exc, S)
    ELSE Return([S EXCEPT !.end = r.val, !.flips = Append(@, triple)])

\* VeeringFlipSequence.flip(e, col)
flip(S, e, col) ==
    flip_log(S, tri_flip(S.end, canonical(S.end.ep, e), col),
             <<logged_edge(S, canonical(S.end.ep, e)), col, S.end.colouring[e]>>)

\* perm_init(data, n, involution) for data an array: the array itself
perm_init(data, n, involution) == data

\* relabel, lines 504-505
relabel_commit(S, r) ==
    Return([S EXCEPT !.end = tri_relabel(@, r),
                     !.relabelling = perm_compose(@, r)])

\* the relabelling composed before r is validated
relabel_composed(S, r) ==
    IF perm_check(r, S.end.n)
    THEN relabel_commit(S, r)
    ELSE Raise("ValueError", [S EXCEPT !.relabelling = perm_compose(@, r)])

\* VeeringFlipSequence.relabel(r), r an array
relabel(S, r) ==
    IF perm_check(r, S.end.n)
    THEN relabel_commit(S, r)
    ELSE IF perm_check(perm_init(r, S.end.n, S.end.ep), S.end.n)
    THEN relabel_commit(S, perm_init(r, S.end.n, S.end.ep))
    ELSE Raise("ValueError", S)

\* the loop "for e, col in sequence: self.flip(e, col)"
RECURSIVE flip_all(_, _)
flip_rest(r, sequence) ==
    IF r.exc # "" THEN r ELSE flip_all(r.val, sequence)

flip_all(S, sequence) ==
    IF sequence = <<>>
    THEN Return(S)
    ELSE flip_rest(flip(S, sequence[1][1], sequence[1][2]), Tail(sequence))

\* __init__, lines 62-63 and 69-71
init_start(start, reduced) ==
    IF (IF reduced = None THEN any_colour(start, PURPLE) ELSE reduced = "True")
    THEN forgot_forward_flippable_colour(start)
    ELSE start

\* __init__, lines 72-74
init_state(s) ==
    [start |-> s, end |-> s, flips |-> <<>>, relabelling |-> perm_id(s.n)]

\* __init__, lines 81-82
init_relabel(r, relabelling) ==
    IF r.exc # "" \/ relabelling = NoRelabelling
    THEN r
    ELSE relabel(r.val, relabelling)

\* the constructor taking a start with GREEN edges as it is
VeeringFlipSequence_green(start, sequence, relabelling, reduced) ==
    IF reduced = "False" /\ any_colour(start, PURPLE)
    THEN Raise("ValueError", None)
    ELSE init_relabel(flip_all(init_state(init_start(start, reduced)), sequence),
                      relabelling)

\* VeeringFlipSequence.__init__(start, sequence, relabelling, reduced)
VeeringFlipSequence(start, sequence, relabelling, reduced) ==
    IF any_colour(start, GREEN)
    THEN Raise("ValueError", None)
    ELSE IF reduced = "False" /\ any_colour(start, PURPLE)
    THEN Raise("ValueError", None)
    ELSE init_relabel(flip_all(init_state(init_start(start, reduced)), sequence),
                      relabelling)

\* __init__, lines 77-78: the constructor given the flips as a string
from_parsed(start, parsed, relabelling, reduced) ==
    IF parsed.exc # ""
    THEN parsed
    ELSE VeeringFlipSequence(start, parsed.val, relabelling, reduced)

VeeringFlipSequenceOfString(start, s, relabelling, reduced) ==
    IF any_colour(start, GREEN)
    THEN Raise("ValueError", None)
    ELSE IF reduced = "False" /\ any_colour(start, PURPLE)
    THEN Raise("ValueError", None)
    ELSE from_parsed(start, flip_sequence_from_string(s), relabelling, reduced)

\* VeeringFlipSequence.flips(): the pairs (e, col)
flips(S) == [i \in 1..Len(S.flips) |-> <<S.flips[i][1], S.flips[i][2]>>]

\* the four assertions of _check, T the sequence built again
check_asserts(S, T) ==
    IF T.exc # ""
    THEN T.exc
    ELSE IF /\ T.val.start = S.start
            /\ T.val.relabelling = S.relabelling
            /\ T.val.flips = S.flips
            /\ T.val.end = S.end
    THEN ""
    ELSE "AssertionError"

\* VeeringFlipSequence._check(): "" when it returns
_check(S) ==
    check_asserts(S, VeeringFlipSequence(S.start, flips(S), S.relabelling, None))

\* a method that ends with self._check()
check_outcome(S, c) == IF c # "" THEN Raise(c, S) ELSE Return(S)

checked(S) == check_outcome(S, _check(S))

\* swap, lines 489-492: "self._relabelling[e] = E; self._relabelling[E] = e"
swap_state(S, e) ==
    [S EXCEPT !.end = tri_swap(@, e),
              !.relabelling = [@ EXCEPT ![e] = S.end.ep[e], ![S.end.ep[e]] = e]]

\* VeeringFlipSequence.swap(e); val is self after the call
swap(S, e) == checked(swap_state(S, e))

\* VeeringFlipSequence.__eq__
eq(S, other) ==
    /\ S.start = other.start
    /\ S.end = other.end
    /\ S.flips = other.flips
    /\ S.relabelling = other.relabelling

is_closed(S) == S.start = S.end

\* the edge of other taken as it is, not brought back through r
pull_back_none(S, r, e) ==
    IF e < num_edges(S.start) THEN e ELSE S.start.ep[e]

\* "r[e] if r[e] < ne else ep[r[e]]"
pull_back(S, r, e) ==
    IF r[e] < num_edges(S.start) THEN r[e] ELSE S.start.ep[r[e]]

\* the relabellings composed the other way round
imul_state_reversed(S, other, r) ==
    [S EXCEPT !.flips = @ \o [i \in 1..Len(other.flips) |->
                                <<pull_back(S, r, other.flips[i][1]),
                                  other.flips[i][2], other.flips[i][3]>>],
              !.end = other.end,
              !.relabelling = perm_compose(other.relabelling, @)]

\* __imul__, lines 525-531
imul_state(S, other, r) ==
    [S EXCEPT !.flips = @ \o [i \in 1..Len(other.flips) |->
                                <<pull_back(S, r, other.flips[i][1]),
                                  other.flips[i][2], other.flips[i][3]>>],
              !.end = other.end,
              !.relabelling = perm_compose(@, other.relabelling)]

\* type(other) is VeeringFlipSequence; the other values of the model are
\* triangulations
is_flip_sequence(other) == "flips" \in DOMAIN other

\* the product checked but not kept
__imul__unchanged(S, other) ==
    IF ~is_flip_sequence(other)
    THEN Raise("TypeError", S)
    ELSE IF S.end # other.start
    THEN Raise("ValueError", S)
    ELSE check_outcome(S, _check(imul_state(S, other,
                                            perm_invert(S.relabelling, S.start.n))))

\* the flips of other appended before the ends are compared
__imul__unguarded(S, other) ==
    IF ~is_flip_sequence(other)
    THEN Raise("TypeError", S)
    ELSE IF S.end # other.start
    THEN Raise("ValueError", imul_state(S, other, perm_invert(S.relabelling, S.start.n)))
    ELSE checked(imul_state(S, other, perm_invert(S.relabelling, S.start.n)))

\* VeeringFlipSequence.copy()
copy(S) ==
    [start |-> S.start, end |-> S.end, flips |-> S.flips,
     relabelling |-> S.relabelling]

\* VeeringFlipSequence.__imul__(other); val is self after the call
__imul__(S, other) ==
    IF ~is_flip_sequence(other)
    THEN Raise("TypeError", S)
    ELSE IF S.end # other.start
    THEN Raise("ValueError", S)
    ELSE checked(imul_state(S, other, perm_invert(S.relabelling, S.start.n)))

\* VeeringFlipSequence.__mul__(other): a copy of self, multiplied in place
__mul__(S, other) == __imul__(S, other)

\* the flips of self repeated with the edges as they are
RECURSIVE pow_flips_same(_, _, _, _, _)
pow_flips_same(S, r, fl, m, count) ==
    IF count = 0
    THEN fl
    ELSE pow_flips_same(S, r, Append(fl, fl[Len(fl) - m + 1]), m, count - 1)

\* the loop of __pow__: count times, append the m-th flip from the end
RECURSIVE pow_flips(_, _, _, _, _)
pow_flips(S, r, fl, m, count) ==
    IF count = 0
    THEN fl
    ELSE pow_flips(S, r,
                   Append(fl, <<pull_back(S, r, fl[Len(fl) - m + 1][1]),
                                fl[Len(fl) - m + 1][2], fl[Len(fl) - m + 1][3]>>),
                   m, count - 1)

\* the relabelling raised to the power k - 1
pow_state_short(S, k, r) ==
    [S EXCEPT !.relabelling = perm_pow(@, k - 1),
              !.flips = pow_flips(S, r, @, Len(@), Len(@) * (k - 1))]

\* __pow__, lines 565-574
pow_state(S, k, r) ==
    [S EXCEPT !.relabelling = perm_pow(@, k),
              !.flips = pow_flips(S, r, @, Len(@), Len(@) * (k - 1))]

\* every positive power taken to be self
__pow__self(S, k) ==
    IF S.end # S.start
    THEN Raise("ValueError", S)
    ELSE IF k < 0
    THEN Raise("ValueError", S)
    ELSE IF k = 0
    THEN VeeringFlipSequence(S.start, <<>>, NoRelabelling, None)
    ELSE Return(S)

\* VeeringFlipSequence.__pow__(k)
__pow__(S, k) ==
    IF S.end # S.start
    THEN Raise("ValueError", S)
    ELSE IF k < 0
    THEN Raise("ValueError", S)
    ELSE IF k = 0
    THEN VeeringFlipSequence(S.start, <<>>, NoRelabelling, None)
    ELSE IF k = 1
    THEN Return(S)
    ELSE checked(pow_state(S, k, perm_invert(S.relabelling, S.start.n)))

\* "e = r[e]; if e >= n: e = ep[e]" with r the relabelling
edge_image(S, e) ==
    IF S.relabelling[e] >= num_edges(S.start)
    THEN S.start.ep[S.relabelling[e]]
    ELSE S.relabelling[e]

\* unflipped_edges, lines 354-365: the loop, new being the edges added last
RECURSIVE spread(_, _, _, _)
spread_step(S, flipped_edges, very_new) ==
    spread(S, flipped_edges \cup very_new, very_new, very_new # {})

\* no edge added through the relabelling
spread_none(S, flipped_edges, new, modified) == flipped_edges

spread(S, flipped_edges, new, modified) ==
    IF Cardinality(flipped_edges) < num_edges(S.start) /\ modified
    THEN spread_step(S, flipped_edges, {edge_image(S, e) : e \in new} \ flipped_edges)
    ELSE flipped_edges

\* unflipped_edges, lines 367-370
unflipped_result(S, flipped_edges) ==
    IF flipped_edges \subseteq 0..(num_edges(S.start) - 1)
    THEN Return((0..(num_edges(S.start) - 1)) \ flipped_edges)
    ELSE Raise("AssertionError", None)

\* unflipped_edges, lines 346-348
unflipped_from(S, flipped_edges) ==
    IF Cardinality(flipped_edges) = num_edges(S.start)
    THEN Return({})
    ELSE unflipped_result(S, spread(S, flipped_edges, flipped_edges, TRUE))

\* VeeringFlipSequence.unflipped_edges()
unflipped_edges(S) ==
    IF S.start # S.end
    THEN Raise("TypeError", None)
    ELSE unflipped_from(S, {S.flips[i][1] : i \in 1..Len(S.flips)})

pseudo_anosov_result(u) == IF u.exc # "" THEN u ELSE Return(u.val = {})

\* unflipped_edges asked of any sequence, closed or not
is_pseudo_anosov_unguarded(S) == pseudo_anosov_result(unflipped_edges(S))

\* VeeringFlipSequence.is_pseudo_anosov()
is_pseudo_anosov(S) ==
    IF S.start # S.end
    THEN Return(FALSE)
    ELSE pseudo_anosov_result(unflipped_edges(S))

\* end_colouring, lines 197-198: "if e >= ne: e = ep[e]" on end
canonical_end(S, e) == IF e >= num_edges(S.end) THEN S.end.ep[e] ELSE e

\* end_colouring, lines 193-202: the flips read backward from the i-th
RECURSIVE scan_back(_, _, _, _)
scan_back(S, i, colours, undetermined) ==
    IF i >= 1 /\ undetermined # {}
    THEN IF canonical_end(S, S.relabelling[S.flips[i][1]]) \in undetermined
         THEN scan_back(S, i - 1,
                        [colours EXCEPT ![canonical_end(S, S.relabelling[S.flips[i][1]])]
                                            = S.flips[i][2]],
                        undetermined \ {canonical_end(S, S.relabelling[S.flips[i][1]])})
         ELSE scan_back(S, i - 1, colours, undetermined)
    ELSE [colours |-> colours, undetermined |-> undetermined]

\* the colours of start not looked at
from_start_none(S, sc) == sc.colours

\* end_colouring, lines 205-213
from_start(S, sc) ==
    [e \in DOMAIN sc.colours |->
        IF e \in sc.undetermined
           /\ S.start.colouring[perm_preimage(S.relabelling, e)] # PURPLE
        THEN S.start.colouring[perm_preimage(S.relabelling, e)]
        ELSE sc.colours[e]]

\* VeeringFlipSequence.end_colouring(): one colour for each edge of end
end_colouring(S) ==
    from_start(S, scan_back(S, Len(S.flips),
                            [e \in 0..(num_edges(S.end) - 1) |-> S.end.colouring[e]],
                            {e \in 0..(num_edges(S.end) - 1) : S.end.colouring[e] = PURPLE}))

\* the edges of start that stay PURPLE coloured from the start itself
colour_start_kept(V, ne, colours) ==
    IF \E e \in 0..(ne - 1) : V.colouring[e] = PURPLE /\ colours[e] = PURPLE
    THEN Return(V)
    ELSE Return([V EXCEPT !.colouring = [i \in 0..(V.n - 1) |->
            IF V.colouring[IF i < ne THEN i ELSE V.ep[i]] = PURPLE
            THEN colours[IF i < ne THEN i ELSE V.ep[i]]
            ELSE V.colouring[i]]])

\* coloured_start, lines 220-225; val is the edge the error names
colour_start(V, ne, colours) ==
    IF \E e \in 0..(ne - 1) : V.colouring[e] = PURPLE /\ colours[e] = PURPLE
    THEN Raise("ValueError",
               CHOOSE e \in 0..(ne - 1) :
                   /\ V.colouring[e] = PURPLE /\ colours[e] = PURPLE
                   /\ \A d \in 0..(e - 1) :
                        ~(V.colouring[d] = PURPLE /\ colours[d] = PURPLE))
    ELSE Return([V EXCEPT !.colouring = [i \in 0..(V.n - 1) |->
            IF V.colouring[IF i < ne THEN i ELSE V.ep[i]] = PURPLE
            THEN colours[IF i < ne THEN i ELSE V.ep[i]]
            ELSE V.colouring[i]]])

\* VeeringFlipSequence.coloured_start()
coloured_start(S) ==
    IF \E e \in 0..(num_edges(S.start) - 1) : S.start.colouring[e] = PURPLE
    THEN colour_start(S.start, num_edges(S.start), end_colouring(S))
    ELSE Return(S.start)

\* inverse, lines 247-250: the flips made again on the coloured start V
RECURSIVE coloured_replay(_, _, _)
coloured_next(r, fl, acc) ==
    IF r.exc # "" THEN r ELSE coloured_replay(r.val, fl, acc)

coloured_replay(V, fl, acc) ==
    IF fl = <<>>
    THEN Return([V |-> V, flips |-> acc])
    ELSE coloured_next(tri_flip(V, fl[1][1], fl[1][2]), Tail(fl),
                       Append(acc, <<fl[1][1], fl[1][2], V.colouring[fl[1][1]]>>))

\* inverse, lines 250-255: relabel, and the assertion on the reduced end
coloured_end(S, r) ==
    IF r.exc # ""
    THEN r
    ELSE IF forgot_forward_flippable_colour(tri_relabel(r.val.V, S.relabelling)) # S.end
    THEN Raise("AssertionError", None)
    ELSE Return([V |-> tri_relabel(r.val.V, S.relabelling), flips |-> r.val.flips])

coloured_from(S, V) ==
    IF V.exc # "" THEN V ELSE coloured_end(S, coloured_replay(V.val, S.flips, <<>>))

\* inverse, lines 241-258: V and the coloured flips
coloured(S) ==
    IF \E e \in 0..(num_edges(S.start) - 1) : S.start.colouring[e] = PURPLE
    THEN coloured_from(S, coloured_start(S))
    ELSE Return([V |-> S.end, flips |-> S.flips])

\* the flips turned but taken in the order of the log
inverse_flips_forward(S, fl) ==
    [j \in 1..Len(fl) |->
        <<S.relabelling[fl[j][1]], IF fl[j][3] = RED THEN BLUE ELSE RED>>]

\* inverse, line 261
inverse_flips(S, fl) ==
    [j \in 1..Len(fl) |->
        <<S.relabelling[fl[Len(fl) + 1 - j][1]],
          IF fl[Len(fl) + 1 - j][3] = RED THEN BLUE ELSE RED>>]

\* inverse, lines 268-270: "c[i], c[ep[i]] = c[ep[i]], c[i]" for each flip
RECURSIVE swaps(_, _, _)
swaps(ep, c, fl) ==
    IF fl = <<>>
    THEN c
    ELSE swaps(ep, [c EXCEPT ![fl[1][1]] = c[ep[fl[1][1]]],
                             ![ep[fl[1][1]]] = c[fl[1][1]]], Tail(fl))

\* the inverse of the relabelling, no half-edges exchanged
inverse_relabelling_plain(S, fl) == perm_invert(S.relabelling, S.start.n)

\* inverse, lines 266-272
inverse_relabelling(S, fl) ==
    perm_compose(swaps(S.start.ep, perm_id(S.start.n), fl),
                 perm_invert(S.relabelling, S.start.n))

\* inverse, lines 275-280
inverse_check(r) == IF r.exc # "" THEN r ELSE checked(r.val)

\* inverse, lines 260-280
inverse_of(S, cf, reduced) ==
    IF cf.exc # ""
    THEN cf
    ELSE IF \E j \in 1..Len(cf.val.flips) : cf.val.flips[j][3] \notin {BLUE, RED}
    THEN Raise("AssertionError", None)
    ELSE inverse_check(
            VeeringFlipSequence(tri_rotate(cf.val.V),
                                inverse_flips(S, cf.val.flips),
                                inverse_relabelling(S, inverse_flips(S, cf.val.flips)),
                                IF reduced THEN "True" ELSE "False"))

\* inverse() refusing a sequence that is not closed
inverse_closed(S) ==
    IF S.start # S.end
    THEN Raise("ValueError", None)
    ELSE inverse_of(S, coloured(S),
                    \E e \in 0..(num_edges(S.start) - 1) : S.start.colouring[e] = PURPLE)

\* VeeringFlipSequence.inverse()
inverse(S) ==
    inverse_of(S, coloured(S),
               \E e \in 0..(num_edges(S.start) - 1) : S.start.colouring[e] = PURPLE)

(***************************************************************************)
(* The session: one flip sequence F, the calls made on it, and in last the *)
(* outcome of the latest call.                                             *)
(***************************************************************************)
\* the one-triangle torus (0,1,2)(~0,~1,~2), ~i = 5 - i
Torus(cols) ==
    Triangulation(<<1, 2, 0, 5, 3, 4>>, <<5, 4, 3, 2, 1, 0>>,
                  <<cols[1], cols[2], cols[3], cols[3], cols[2], cols[1]>>)

\* the arguments (start, reduced) given to the constructor
StartArgs ==
    { <<Torus(<<PURPLE, BLUE, RED>>), None>>,
      <<Torus(<<RED, RED, BLUE>>), None>>,
      <<Torus(<<RED, RED, BLUE>>), "True">>,
      <<Torus(<<PURPLE, BLUE, RED>>), "False">>,
      <<Torus(<<GREEN, RED, BLUE>>), None>> }

\* the arrays given to relabel: (0,~1,~0,1)(2,~2) and (0,2)(1,~1)
Relabellings ==
    { Array(<<4, 0, 3, 2, 5, 1>>),
      Array(<<2, 4, 0, 5, 1, 3>>) }

\* arrays of the right length that are not permutations: a value taken
\* twice, a value out of range
BadRelabellings ==
    { Array(<<0, 0, 2, 3, 4, 5>>),
      Array(<<6, 1, 2, 3, 4, 5>>) }

Idle == [op |-> "idle", arg |-> None, exc |-> "", ret |-> None]

\* a method of F was called: r.val is F after the call, also when it raised
Mutate(op, arg, r) ==
    /\ F' = r.val
    /\ last' = [op |-> op, arg |-> arg, exc |-> r.exc, ret |-> None]

\* F = <call>: F is bound to the value returned, and kept when the call raised
Assign(op, arg, r) ==
    /\ F' = IF r.exc = "" THEN r.val ELSE F
    /\ last' = [op |-> op, arg |-> arg, exc |-> r.exc, ret |-> None]

\* the sequence of no flips on T
EmptyOn(T) == VeeringFlipSequence(T, <<>>, NoRelabelling, None).val

\* a call that returns a value and leaves F as it is
Query(op, r) ==
    /\ last' = [op |-> op, arg |-> None, exc |-> r.exc,
                ret |-> IF r.exc = "" THEN r.val ELSE None]
    /\ UNCHANGED F

\* the lists of at most one (edge, colour) pair given to the constructor
ArgSequences(T) ==
    {<<>>} \cup { <<(<<e, col>>)>> : e \in 0..(T.n - 1), col \in {RED, BLUE} }

\* the sequences built on T by one constructor call
Built(T, rels) ==
    LET made == { VeeringFlipSequence(T, sq, r, None) :
                    sq \in ArgSequences(T), r \in rels }
    IN  { m.val : m \in { x \in made : x.exc = "" } }

\* the other operand of a composition: built on the end of S or on its
\* start, or S itself
Operands(S) ==
    Built(S.end, Relabellings \cup {NoRelabelling})
        \cup Built(S.start, {NoRelabelling}) \cup {S}

Init ==
    /\ \E a \in StartArgs :
        /\ VeeringFlipSequence(a[1], <<>>, NoRelabelling, a[2]).exc = ""
        /\ F = VeeringFlipSequence(a[1], <<>>, NoRelabelling, a[2]).val
        /\ last = [op |-> "__init__", arg |-> [start |-> a[1], reduced |-> a[2]],
                   exc |-> "", ret |-> None]
    /\ io = None
    /\ res = None
    /\ fam = None

\* the caller goes on to its next statement
Continue ==
    /\ last.op # "idle"
    /\ last' = Idle
    /\ UNCHANGED <<F, io, res, fam>>

\* F = VeeringFlipSequence(start, reduced=reduced)
New ==
    /\ last.op = "idle"
    /\ \E a \in StartArgs :
        Assign("__init__", [start |-> a[1], reduced |-> a[2]],
               VeeringFlipSequence(a[1], <<>>, NoRelabelling, a[2]))
    /\ UNCHANGED <<io, res, fam>>

\* F.flip(e, col)
Flip ==
    /\ last.op = "idle"
    /\ Len(F.flips) < MaxFlips
    /\ \E e \in 0..(F.end.n - 1), col \in {RED, BLUE} :
        Mutate("flip", [self |-> F, e |-> e, col |-> col], flip(F, e, col))
    /\ UNCHANGED <<io, res, fam>>

\* F.relabel(r)
Relabel ==
    /\ last.op = "idle"
    /\ \E p \in Relabellings \cup BadRelabellings :
        Mutate("relabel", [self |-> F, r |-> p], relabel(F, p))
    /\ UNCHANGED <<io, res, fam>>

\* what the caller puts on the right of * and *=: a flip sequence, or the
\* triangulation F ends on
RightOperands(S) == Operands(S) \cup {S.end}

\* F *= G
IMul ==
    /\ last.op = "idle"
    /\ \E G \in RightOperands(F) :
        /\ is_flip_sequence(G) => Len(F.flips) + Len(G.flips) <= MaxFlips
        /\ Mutate("__imul__", [self |-> F, other |-> G], __imul__(F, G))
    /\ UNCHANGED <<io, res, fam>>

\* F = F * G
Mul ==
    /\ last.op = "idle"
    /\ \E G \in RightOperands(F) :
        /\ is_flip_sequence(G) => Len(F.flips) + Len(G.flips) <= MaxFlips
        /\ Assign("__mul__", [self |-> F, other |-> G], __mul__(F, G))
    /\ UNCHANGED <<io, res, fam>>

\* F = F ** k
Pow ==
    /\ last.op = "idle"
    /\ \E k \in (-1)..MaxPow :
        /\ Len(F.flips) * k <= MaxPowFlips
        /\ Assign("__pow__", [self |-> F, k |-> k], __pow__(F, k))
    /\ UNCHANGED <<io, res, fam>>

\* F.is_closed()
IsClosed ==
    /\ last.op = "idle"
    /\ Query("is_closed", Return(is_closed(F)))
    /\ UNCHANGED <<io, res, fam>>

\* F.unflipped_edges()
UnflippedEdges ==
    /\ last.op = "idle"
    /\ Query("unflipped_edges", unflipped_edges(F))
    /\ UNCHANGED <<io, res, fam>>

\* F.is_pseudo_anosov()
IsPseudoAnosov ==
    /\ last.op = "idle"
    /\ Query("is_pseudo_anosov", is_pseudo_anosov(F))
    /\ UNCHANGED <<io, res, fam>>

\* F.inverse()
Inverse ==
    /\ last.op = "idle"
    /\ Query("inverse", inverse(F))
    /\ UNCHANGED <<io, res, fam>>

\* F.copy()
Copy ==
    /\ last.op = "idle"
    /\ Query("copy", Return(copy(F)))
    /\ UNCHANGED <<io, res, fam>>

\* F.end_colouring()
EndColouring ==
    /\ last.op = "idle"
    /\ Query("end_colouring", Return(end_colouring(F)))
    /\ UNCHANGED <<io, res, fam>>

\* F.coloured_start()
ColouredStart ==
    /\ last.op = "idle"
    /\ Query("coloured_start", coloured_start(F))
    /\ UNCHANGED <<io, res, fam>>

Next ==
    \/ Continue
    \/ New
    \/ Flip
    \/ Relabel
    \/ IMul
    \/ Mul
    \/ Pow
    \/ IsClosed
    \/ UnflippedEdges
    \/ IsPseudoAnosov
    \/ Inverse
    \/ Copy
    \/ EndColouring
    \/ ColouredStart

Spec == Init /\ [][Next]_vars

(***************************************************************************)
(* The session of long logs: flips, relabellings and the questions asked   *)
(* of the log, with no products, so that one edge is flipped several times *)
(***************************************************************************)
\* longest flip log of this session
MaxLogFlips == 5

\* F.flip(e, col) on a log of fewer than MaxLogFlips flips
FlipLogged ==
    /\ last.op = "idle"
    /\ Len(F.flips) < MaxLogFlips
    /\ \E e \in 0..(F.end.n - 1), col \in {RED, BLUE} :
        Mutate("flip", [self |-> F, e |-> e, col |-> col], flip(F, e, col))
    /\ UNCHANGED <<io, res, fam>>

NextLog ==
    \/ Continue
    \/ FlipLogged
    \/ Relabel
    \/ EndColouring
    \/ Inverse

SpecLog == Init /\ [][NextLog]_vars

(***************************************************************************)
(* The session with swap.  A sequence whose relabelling swap has left with *)
(* a value taken twice is not used again: the caller builds a new one.     *)
(***************************************************************************)
\* F.swap(e)
Swap ==
    /\ last.op = "idle"
    /\ \E e \in 0..(F.end.n - 1) :
        Mutate("swap", [self |-> F, e |-> e], swap(F, e))
    /\ UNCHANGED <<io, res, fam>>

NextSwap ==
    \/ perm_check(F.relabelling, F.start.n) /\ Next
    \/ perm_check(F.relabelling, F.start.n) /\ Swap
    \/ ~perm_check(F.relabelling, F.start.n) /\ Continue
    \/ ~perm_check(F.relabelling, F.start.n) /\ New

SpecSwap == Init /\ [][NextSwap]_vars

(***************************************************************************)
(* The session of the objects: io is the triangulation the caller gave to  *)
(* the constructor, as it is after the call, and F the sequence.  A query  *)
(* works on a triangulation V of its own; F after the query is what the    *)
(* method left in self.  A sequence whose relabelling swap has left with a *)
(* value taken twice is not used again.                                    *)
(***************************************************************************)
\* the constructor working on the triangulation it was given
init_argument_kept(start, reduced) == init_start(start, reduced)

\* __init__, lines 69-71: the triangulation given to the constructor, after
\* the call; self._start is start.copy() and the colours are forgotten there
init_argument(start, reduced) == start

\* self after the query op that wrote into V: V is self._start.copy() in
\* coloured_start (line 216) and matrix (line 160), what coloured_start
\* returned or self._end.copy() in inverse (lines 247 and 258); flips (line
\* 293), is_closed (line 296), unflipped_edges, is_pseudo_anosov,
\* end_colouring (line 206, a slice) and start and end (lines 135-145) assign
\* nothing
queried(S, op, V) == S

\* matrix, lines 160-163: V after the flips of the log
matrix_triangulation(S) ==
    IF coloured_replay(S.start, S.flips, <<>>).exc = ""
    THEN coloured_replay(S.start, S.flips, <<>>).val.V
    ELSE S.start

\* coloured_start, lines 216-225: V at the return or at the raise
coloured_start_triangulation(S) ==
    IF coloured_start(S).exc = "" THEN coloured_start(S).val ELSE S.start

\* inverse, line 274: V rotated
inverse_triangulation(S) ==
    IF coloured(S).exc = "" THEN tri_rotate(coloured(S).val.V) ELSE S.end

\* start(copy) and end(copy), lines 135-145
start(S, copy_) == S.start

end(S, copy_) == S.end

InitSnapshot ==
    /\ \E a \in StartArgs :
        /\ VeeringFlipSequence(a[1], <<>>, NoRelabelling, a[2]).exc = ""
        /\ F = VeeringFlipSequence(a[1], <<>>, NoRelabelling, a[2]).val
        /\ io = init_argument(a[1], a[2])
        /\ last = [op |-> "__init__", arg |-> [start |-> a[1], reduced |-> a[2]],
                   exc |-> "", ret |-> None]
    /\ res = None
    /\ fam = None

\* F = VeeringFlipSequence(V, reduced=reduced), io the caller's V
Construct ==
    /\ last.op = "idle"
    /\ \E a \in StartArgs :
        /\ Assign("__init__", [start |-> a[1], reduced |-> a[2]],
                  VeeringFlipSequence(a[1], <<>>, NoRelabelling, a[2]))
        /\ io' = init_argument(a[1], a[2])
    /\ UNCHANGED <<res, fam>>

\* a query of F that worked on V and returned r
Asked(op, r, V) ==
    /\ F' = queried(F, op, V)
    /\ last' = [op |-> op, arg |-> [self |-> F], exc |-> r.exc,
                ret |-> IF r.exc = "" THEN r.val ELSE None]
    /\ UNCHANGED <<io, res, fam>>

\* F.flips()
AskFlips ==
    /\ last.op = "idle"
    /\ Asked("flips", Return(flips(F)), None)

\* F.is_closed()
AskIsClosed ==
    /\ last.op = "idle"
    /\ Asked("is_closed", Return(is_closed(F)), None)

\* F.unflipped_edges()
AskUnflippedEdges ==
    /\ last.op = "idle"
    /\ Asked("unflipped_edges", unflipped_edges(F), None)

\* F.is_pseudo_anosov()
AskIsPseudoAnosov ==
    /\ last.op = "idle"
    /\ Asked("is_pseudo_anosov", is_pseudo_anosov(F), None)

\* F.end_colouring()
AskEndColouring ==
    /\ last.op = "idle"
    /\ Asked("end_colouring", Return(end_colouring(F)), None)

\* F.coloured_start()
AskColouredStart ==
    /\ last.op = "idle"
    /\ Asked("coloured_start", coloured_start(F), coloured_start_triangulation(F))

\* F.inverse()
AskInverse ==
    /\ last.op = "idle"
    /\ Asked("inverse", inverse(F), inverse_triangulation(F))

\* F.matrix(): the matrix itself is not computed
AskMatrix ==
    /\ last.op = "idle"
    /\ Asked("matrix", Return(None), matrix_triangulation(F))

\* F.start(copy)
AskStart ==
    /\ last.op = "idle"
    /\ \E c \in BOOLEAN : Asked("start", Return(start(F, c)), None)

\* F.end(copy)
AskEnd ==
    /\ last.op = "idle"
    /\ \E c \in BOOLEAN : Asked("end", Return(end(F, c)), None)

NextSnapshot ==
    \/ Continue
    \/ Construct
    \/ perm_check(F.relabelling, F.start.n) /\ Flip
    \/ perm_check(F.relabelling, F.start.n) /\ Relabel
    \/ perm_check(F.relabelling, F.start.n) /\ Swap
    \/ perm_check(F.relabelling, F.start.n) /\ IMul
    \/ perm_check(F.relabelling, F.start.n) /\ AskFlips
    \/ perm_check(F.relabelling, F.start.n) /\ AskIsClosed
    \/ perm_check(F.relabelling, F.start.n) /\ AskUnflippedEdges
    \/ perm_check(F.relabelling, F.start.n) /\ AskIsPseudoAnosov
    \/ perm_check(F.relabelling, F.start.n) /\ AskEndColouring
    \/ perm_check(F.relabelling, F.start.n) /\ AskColouredStart
    \/ perm_check(F.relabelling, F.start.n) /\ AskInverse
    \/ perm_check(F.relabelling, F.start.n) /\ AskMatrix
    \/ perm_check(F.relabelling, F.start.n) /\ AskStart
    \/ perm_check(F.relabelling, F.start.n) /\ AskEnd

SpecSnapshot == InitSnapshot /\ [][NextSnapshot]_vars

(***************************************************************************)
(* Two sequences: F, and in res the sequence that F.copy(), F * G or       *)
(* F.inverse() returned.  res.shared tells that the two objects hold the   *)
(* same relabelling array: copy() assigns it without copying it.  flip     *)
(* leaves the array alone, relabel binds a new one, swap writes into it.   *)
(* A sequence whose relabelling swap has left with a value taken twice is  *)
(* not used again.                                                         *)
(***************************************************************************)
\* longest flip log of either sequence in this session
MaxShareFlips == 1

\* calls made in one session of two sequences
MaxShareCalls == 3

NoResult == [of |-> "none", seq |-> None, shared |-> FALSE]

\* the latest call: who is "self" for F and "result" for res.seq; ret counts
\* the calls of the session
Called(op, who, r) ==
    /\ last.ret < MaxShareCalls
    /\ last' = [op |-> op, arg |-> who, exc |-> r.exc, ret |-> last.ret + 1]

\* neither relabelling has been left with a value taken twice
BothUsable ==
    /\ perm_check(F.relabelling, F.start.n)
    /\ res.of # "none" => perm_check(res.seq.relabelling, res.seq.start.n)

InitShare ==
    /\ \E a \in StartArgs :
        /\ VeeringFlipSequence(a[1], <<>>, NoRelabelling, a[2]).exc = ""
        /\ F = VeeringFlipSequence(a[1], <<>>, NoRelabelling, a[2]).val
    /\ last = [op |-> "__init__", arg |-> "self", exc |-> "", ret |-> 0]
    /\ io = None
    /\ res = NoResult
    /\ fam = None

\* res = F.copy(): line 152 is "F._relabelling = self._relabelling"
ShareCopy ==
    /\ BothUsable
    /\ res' = [of |-> "copy", seq |-> copy(F), shared |-> TRUE]
    /\ Called("copy", "self", Return(None))
    /\ UNCHANGED <<F, io, fam>>

\* res = F * G: the copy of line 549 gets a new relabelling at line 531
ShareMul ==
    /\ BothUsable
    /\ \E G \in Operands(F) :
        /\ Len(F.flips) + Len(G.flips) <= MaxShareFlips
        /\ __mul__(F, G).exc = ""
        /\ res' = [of |-> "mul", seq |-> __mul__(F, G).val, shared |-> FALSE]
    /\ Called("__mul__", "self", Return(None))
    /\ UNCHANGED <<F, io, fam>>

\* res = F.inverse(): built by the constructor
ShareInverse ==
    /\ BothUsable
    /\ inverse(F).exc = ""
    /\ res' = [of |-> "inverse", seq |-> inverse(F).val, shared |-> FALSE]
    /\ Called("inverse", "self", Return(None))
    /\ UNCHANGED <<F, io, fam>>

\* F.flip(e, col)
FlipSelf ==
    /\ BothUsable
    /\ Len(F.flips) < MaxShareFlips
    /\ \E e \in 0..(F.end.n - 1), col \in {RED, BLUE} :
        /\ F' = flip(F, e, col).val
        /\ Called("flip", "self", flip(F, e, col))
    /\ UNCHANGED <<io, res, fam>>

\* F.relabel(p): F is bound to a new relabelling array
RelabelSelf ==
    /\ BothUsable
    /\ \E p \in Relabellings :
        /\ F' = relabel(F, p).val
        /\ Called("relabel", "self", relabel(F, p))
    /\ res' = [res EXCEPT !.shared = FALSE]
    /\ UNCHANGED <<io, fam>>

\* F.swap(e): the array is written, and res.seq sees it when it is shared
SwapSelf ==
    /\ BothUsable
    /\ \E e \in 0..(F.end.n - 1) :
        /\ F' = swap(F, e).val
        /\ Called("swap", "self", swap(F, e))
        /\ res' = IF res.shared
                  THEN [res EXCEPT !.seq.relabelling = swap(F, e).val.relabelling]
                  ELSE res
    /\ UNCHANGED <<io, fam>>

\* res.flip(e, col)
FlipResult ==
    /\ BothUsable
    /\ res.of # "none"
    /\ Len(res.seq.flips) < MaxShareFlips
    /\ \E e \in 0..(res.seq.end.n - 1), col \in {RED, BLUE} :
        /\ res' = [res EXCEPT !.seq = flip(res.seq, e, col).val]
        /\ Called("flip", "result", flip(res.seq, e, col))
    /\ UNCHANGED <<F, io, fam>>

\* res.relabel(p)
RelabelResult ==
    /\ BothUsable
    /\ res.of # "none"
    /\ \E p \in Relabellings :
        /\ res' = [res EXCEPT !.seq = relabel(res.seq, p).val, !.shared = FALSE]
        /\ Called("relabel", "result", relabel(res.seq, p))
    /\ UNCHANGED <<F, io, fam>>

\* res.swap(e)
SwapResult ==
    /\ BothUsable
    /\ res.of # "none"
    /\ \E e \in 0..(res.seq.end.n - 1) :
        /\ res' = [res EXCEPT !.seq = swap(res.seq, e).val]
        /\ Called("swap", "result", swap(res.seq, e))
        /\ F' = IF res.shared
                THEN [F EXCEPT !.relabelling = swap(res.seq, e).val.relabelling]
                ELSE F
    /\ UNCHANGED <<io, fam>>

NextShare ==
    \/ ShareCopy
    \/ ShareMul
    \/ ShareInverse
    \/ FlipSelf
    \/ RelabelSelf
    \/ SwapSelf
    \/ FlipResult
    \/ RelabelResult
    \/ SwapResult

SpecShare == InitShare /\ [][NextShare]_vars

(***************************************************************************)
(* The flips as a string: io holds a list of (edge, colour) pairs, then    *)
(* the string written from it, then the list read from the string.  The    *)
(* list is any list within the bounds, or the flips of a sequence F.       *)
(***************************************************************************)
RECURSIVE ListsUpTo(_, _)
ListsUpTo(S, n) ==
    IF n = 0 THEN {<<>>}
    ELSE ListsUpTo(S, n - 1)
            \cup { Append(t, x) : t \in { u \in ListsUpTo(S, n - 1) : Len(u) = n - 1 },
                                  x \in S }

\* the lists of (edge, colour) pairs a caller writes
PairLists == ListsUpTo((0..MaxEdge) \X Colours, MaxSeqLen)

\* the sequences built by one constructor call with at most MaxSeqLen flips
StringSequences ==
    { VeeringFlipSequence(c[1][1], c[2], c[3], c[1][2]).val :
        c \in { d \in StartArgs
                        \X ListsUpTo((0..2) \X {RED, BLUE}, MaxSeqLen)
                        \X (Relabellings \cup {NoRelabelling}) :
                    VeeringFlipSequence(d[1][1], d[2], d[3], d[1][2]).exc = "" } }

InitString ==
    /\ last = Idle
    /\ res = None
    /\ fam = None
    /\ \/ /\ F \in StringSequences
          /\ io = [of |-> "flips", stage |-> "list", seq |-> flips(F), str |-> None, back |-> None]
       \/ /\ F = EmptyOn(Torus(<<RED, RED, BLUE>>))
          /\ io \in { [of |-> "list", stage |-> "list", seq |-> q, str |-> None, back |-> None] :
                        q \in PairLists }

\* s = flip_sequence_to_string(seq)
WriteString ==
    /\ io.stage = "list"
    /\ io' = [io EXCEPT !.stage = "written",
                        !.str = flip_sequence_to_string(io.seq)]
    /\ UNCHANGED <<F, last, res, fam>>

\* flip_sequence_from_string(s)
ReadString ==
    /\ io.stage = "written"
    /\ io' = [io EXCEPT !.stage = "read",
                        !.back = flip_sequence_from_string(io.str)]
    /\ UNCHANGED <<F, last, res, fam>>

\* VeeringFlipSequence(F.start, s, F.relabelling), s written from F.flips()
Rebuild ==
    /\ io.of = "flips"
    /\ io.stage # "list"
    /\ last.op = "idle"
    /\ Query("__init__",
             VeeringFlipSequenceOfString(F.start, io.str, F.relabelling, None))
    /\ UNCHANGED <<io, res, fam>>

NextString ==
    \/ WriteString
    \/ ReadString
    \/ Rebuild

SpecString == InitString /\ [][NextString]_vars

(***************************************************************************)
(* Exact linear algebra, the service of sage matrices over the rationals.  *)
(* A rational is the pair <<p, q>> of its lowest terms, q > 0; a matrix is *)
(* [ncols, rows], rows the sequence of its rows and a row a function on    *)
(* the columns 0..ncols-1.                                                 *)
(***************************************************************************)
abs(x) == IF x < 0 THEN 0 - x ELSE x

RECURSIVE gcd(_, _)
gcd(a, b) == IF b = 0 THEN a ELSE gcd(b, a % b)

lowest_terms(p, q, g) ==
    IF q < 0 THEN <<(0 - p) \div g, (0 - q) \div g>> ELSE <<p \div g, q \div g>>

\* p / q, q not 0
rational(p, q) == lowest_terms(p, q, gcd(abs(p), abs(q)))

Zero == <<0, 1>>

rat_sub(x, y) == rational(x[1] * y[2] - y[1] * x[2], x[2] * y[2])

rat_mul(x, y) == rational(x[1] * y[1], x[2] * y[2])

rat_div(x, y) == rational(x[1] * y[2], x[2] * y[1])

rat_neg(x) == <<0 - x[1], x[2]>>

\* matrix(rows) for rows a list of lists of integers
matrix(ncols, rows) ==
    [ncols |-> ncols,
     rows |-> [i \in 1..Len(rows) |-> [j \in 0..(ncols - 1) |-> <<rows[i][j + 1], 1>>]]]

swap_rows(M, r, i) ==
    [M EXCEPT !.rows = [k \in 1..Len(@) |->
        IF k = r THEN @[i] ELSE IF k = i THEN @[r] ELSE @[k]]]

\* row r divided by its entry in column c
scale_row(M, r, c) ==
    [M EXCEPT !.rows[r] = [j \in 0..(M.ncols - 1) |-> rat_div(@[j], M.rows[r][c])]]

\* column c cleared in every row but r, whose entry there is 1
clear_column(M, r, c) ==
    [M EXCEPT !.rows = [k \in 1..Len(@) |->
        IF k = r
        THEN @[k]
        ELSE [j \in 0..(M.ncols - 1) |->
                rat_sub(@[k][j], rat_mul(@[k][c], @[r][j]))]]]

\* the first row from r on with a nonzero entry in column c, 0 when none
pivot_row(M, r, c) ==
    IF \E i \in r..Len(M.rows) : M.rows[i][c] # Zero
    THEN CHOOSE i \in r..Len(M.rows) :
            /\ M.rows[i][c] # Zero
            /\ \A k \in r..(i - 1) : M.rows[k][c] = Zero
    ELSE 0

\* Gauss-Jordan elimination from row r and column c on
RECURSIVE reduce_from(_, _, _)
reduce_from(M, r, c) ==
    IF r > Len(M.rows) \/ c >= M.ncols
    THEN M
    ELSE IF pivot_row(M, r, c) = 0
    THEN reduce_from(M, r, c + 1)
    ELSE reduce_from(clear_column(scale_row(swap_rows(M, r, pivot_row(M, r, c)), r, c),
                                  r, c),
                     r + 1, c + 1)

\* Matrix.echelon_form() over a field: the reduced row echelon form
echelon_form(M) == reduce_from(M, 1, 0)

\* Matrix.rank()
rank(M) ==
    Cardinality({ i \in 1..Len(M.rows) :
                    \E j \in 0..(M.ncols - 1) : echelon_form(M).rows[i][j] # Zero })

\* Matrix.swap_columns(c1, c2)
swap_columns(M, c1, c2) ==
    [M EXCEPT !.rows = [k \in 1..Len(@) |->
        [j \in 0..(M.ncols - 1) |->
            IF j = c1 THEN @[k][c2] ELSE IF j = c2 THEN @[k][c1] ELSE @[k][j]]]]

(***************************************************************************)
(* veerer/linear_family.py: VeeringTriangulationLinearFamily.  A family is *)
(* a triangulation record with three more fields: subspace, the matrix of  *)
(* generators, mutable, the flag of the triangulation, and matrix_mutable, *)
(* the flag of the matrix.                                                 *)
(***************************************************************************)
\* the fields VeeringTriangulation.__init__ fills
triangulation_of(L) ==
    [n |-> L.n, fp |-> L.fp, ep |-> L.ep, colouring |-> L.colouring]

\* VeeringTriangulation._norm(e)
norm(L, e) == IF e < num_edges(L) THEN e ELSE L.ep[e]

\* VeeringTriangulation._check: fp and ep are permutations, the faces are
\* triangles, ep is an involution in canonical form
tri_check(L) ==
    /\ perm_check(L.fp, L.n)
    /\ perm_check(L.ep, L.n)
    /\ \A i \in 0..(L.n - 1) :
        /\ L.fp[L.fp[L.fp[i]]] = i
        /\ L.ep[L.ep[i]] = i
        /\ i < num_edges(L) => L.ep[i] >= i

\* VeeringTriangulation._set_switch_conditions with _tt_check, slope
\* VERTICAL: in the face (i, j, k) the edge that follows a RED one and
\* precedes a BLUE one is the sum of the other two
switch_conditions(L, v) ==
    \A i \in 0..(L.n - 1) :
        (L.colouring[L.fp[L.fp[i]]] = RED /\ L.colouring[L.fp[i]] = BLUE) =>
            v[norm(L, i)][1] * v[norm(L, L.fp[i])][2] * v[norm(L, L.fp[L.fp[i]])][2]
                = v[norm(L, i)][2] *
                    (v[norm(L, L.fp[i])][1] * v[norm(L, L.fp[L.fp[i]])][2]
                     + v[norm(L, L.fp[L.fp[i]])][1] * v[norm(L, L.fp[i])][2])

\* VeeringTriangulationLinearFamily._check(): "" when it returns
family_check(L) ==
    IF ~tri_check(L)
    THEN "ValueError"
    ELSE IF L.subspace.ncols # num_edges(L)
    THEN "ValueError"
    ELSE IF rank(L.subspace) # Len(L.subspace.rows)
    THEN "ValueError"
    ELSE IF \E i \in 1..Len(L.subspace.rows) : ~switch_conditions(L, L.subspace.rows[i])
    THEN "AssertionError"
    ELSE IF L.subspace # echelon_form(L.subspace)
    THEN "ValueError"
    ELSE IF L.mutable # L.matrix_mutable
    THEN "ValueError"
    ELSE ""

\* a method that ends with self._check()
family_checked(L) ==
    IF family_check(L) # "" THEN Raise(family_check(L), L) ELSE Return(L)

\* Matrix.echelonize(): refused by a matrix that is immutable
family_echelonize(L) ==
    IF ~L.matrix_mutable
    THEN Raise("ValueError", L)
    ELSE Return([L EXCEPT !.subspace = echelon_form(@)])

\* __init__, lines 191-197, the matrix made from a list of rows
init_checked(L, mutable) ==
    IF family_check([L EXCEPT !.matrix_mutable = mutable]) # ""
    THEN Raise("ValueError", None)
    ELSE Return([L EXCEPT !.matrix_mutable = mutable])

\* VeeringTriangulationLinearFamily(vt, subspace, mutable=mutable)
VeeringTriangulationLinearFamily(vt, ncols, subspace, mutable) ==
    init_checked([n |-> vt.n, fp |-> vt.fp, ep |-> vt.ep, colouring |-> vt.colouring,
                  subspace |-> echelon_form(matrix(ncols, subspace)),
                  mutable |-> mutable, matrix_mutable |-> TRUE],
                 mutable)

\* the copy of the matrix with no column negated
_horizontal_subspace_plain(L) ==
    IF \E j \in 0..(num_edges(L) - 1) : L.ep[j] < j
    THEN Raise("ValueError", None)
    ELSE Return(L.subspace)

\* _horizontal_subspace(): a copy of the matrix, the columns of the BLUE
\* edges negated
_horizontal_subspace(L) ==
    IF \E j \in 0..(num_edges(L) - 1) : L.ep[j] < j
    THEN Raise("ValueError", None)
    ELSE Return([L.subspace EXCEPT !.rows = [i \in 1..Len(@) |->
            [j \in 0..(L.subspace.ncols - 1) |->
                IF j < num_edges(L) /\ L.colouring[j] = BLUE
                THEN rat_neg(@[i][j])
                ELSE @[i][j]]]])

\* rotate, lines 244-249
rotate_with(L, h) ==
    IF h.exc # ""
    THEN Raise(h.exc, L)
    ELSE family_checked([tri_rotate(L) EXCEPT !.subspace = echelon_form(h.val),
                                              !.matrix_mutable = TRUE])

\* rotate() without the test of the mutable flag
family_rotate_any(L) == rotate_with(L, _horizontal_subspace(L))

\* VeeringTriangulationLinearFamily.rotate(); val is self after the call
family_rotate(L) ==
    IF ~L.mutable
    THEN Raise("ValueError", L)
    ELSE rotate_with(L, _horizontal_subspace(L))

\* VeeringTriangulationLinearFamily.copy(mutable) when it makes an object
copy_made(L, mutable) ==
    [L EXCEPT !.mutable = mutable, !.matrix_mutable = mutable]

\* copy(mutable) with "L._subspace = self._subspace" for the matrix
family_copy_shallow(L, mutable) ==
    IF ~L.mutable /\ ~(IF mutable = None THEN L.mutable ELSE mutable = "True")
    THEN [same |-> TRUE, shared |-> {"fp", "ep", "colouring", "subspace"}, val |-> L]
    ELSE [same |-> FALSE, shared |-> {"subspace"},
          val |-> [L EXCEPT !.mutable =
                      IF mutable = None THEN L.mutable ELSE mutable = "True"]]

\* copy(mutable): same tells that self is returned, shared names the
\* attributes of the result bound to the objects of self
family_copy(L, mutable) ==
    IF ~L.mutable /\ ~(IF mutable = None THEN L.mutable ELSE mutable = "True")
    THEN [same |-> TRUE, shared |-> {"fp", "ep", "colouring", "subspace"}, val |-> L]
    ELSE [same |-> FALSE, shared |-> {},
          val |-> copy_made(L, IF mutable = None THEN L.mutable ELSE mutable = "True")]

\* set_immutable()
family_set_immutable(L) ==
    [L EXCEPT !.mutable = FALSE, !.matrix_mutable = FALSE]

\* __hash__(): the value is made of vp, ep, fp, colouring and the subspace
family_hash(L) ==
    IF L.mutable
    THEN Raise("ValueError", None)
    ELSE Return(<<L.fp, L.ep, L.colouring, L.subspace>>)

\* relabel_on_edges(ep, r, n, m)
relabel_on_edges(ep, r, n, m) ==
    IF \E i \in 0..(m - 1) : ep[i] < i \/ (r[i] >= m /\ r[ep[i]] >= m)
    THEN Raise("ValueError", None)
    ELSE Return([i \in 0..(m - 1) |-> IF r[i] < r[ep[i]] THEN r[i] ELSE r[ep[i]]])

\* the cycle of perm through c0, from ci on: swap_columns(c[0], c[i])
RECURSIVE swap_along(_, _, _, _)
swap_along(M, perm, c0, ci) ==
    IF ci = c0 THEN M ELSE swap_along(swap_columns(M, c0, ci), perm, c0, perm[ci])

\* perm_cycles: each cycle is listed from its smallest element
starts_cycle(perm, x, m) ==
    \A k \in 1..m : perm_pow(perm, k)[x] >= x

\* matrix_permutation(mat, perm), the cycles taken from x on
RECURSIVE permute_from(_, _, _)
permute_from(M, perm, x) ==
    IF x >= M.ncols
    THEN M
    ELSE IF starts_cycle(perm, x, M.ncols)
    THEN permute_from(swap_along(M, perm, x, perm[x]), perm, x + 1)
    ELSE permute_from(M, perm, x + 1)

\* matrix_permutation(self._subspace, rr): swap_columns is refused by a
\* matrix that is immutable
matrix_permutation(L, rr) ==
    IF perm_is_one(rr)
    THEN Return(L)
    ELSE IF ~L.matrix_mutable
    THEN Raise("ValueError", L)
    ELSE Return([L EXCEPT !.subspace = permute_from(@, rr, 0)])

\* VeeringTriangulation.relabel(self, p, False): refused by a triangulation
\* that is immutable
family_tri_relabel(L, p) ==
    IF ~L.mutable THEN Raise("ValueError", L) ELSE Return(tri_relabel(L, p))

\* relabel, lines 500-503
relabel_arrays(r, p) ==
    IF r.exc # "" THEN r ELSE
    IF family_tri_relabel(r.val, p).exc # ""
    THEN family_tri_relabel(r.val, p)
    ELSE family_checked(family_tri_relabel(r.val, p).val)

\* relabel, line 499
relabel_echelonize(r, p) ==
    IF r.exc # "" THEN r ELSE relabel_arrays(family_echelonize(r.val), p)

\* relabel, lines 497-498
relabel_columns(L, p, rr) ==
    IF rr.exc # ""
    THEN Raise(rr.exc, L)
    ELSE relabel_echelonize(matrix_permutation(L, rr.val), p)

\* relabel raising ValueError for an argument that is not a permutation
family_relabel_imported(L, p) ==
    IF ~perm_check(p, L.n)
    THEN Raise("ValueError", L)
    ELSE relabel_columns(L, p, relabel_on_edges(L.ep, p, L.n, num_edges(L)))

\* VeeringTriangulationLinearFamily.relabel(p); val is self after the call.
\* Line 493 calls perm_init, a name the module does not import (line 31)
\* and does not define
family_relabel(L, p) ==
    IF ~perm_check(p, L.n)
    THEN Raise("NameError", L)
    ELSE relabel_columns(L, p, relabel_on_edges(L.ep, p, L.n, num_edges(L)))

\* VeeringTriangulation.flip(e, col, Gx=Gx): the triangulation is flipped
\* and the column of e becomes the difference of the columns of two sides
\* of the square, d - a towards RED and a - d towards BLUE; refused by an
\* immutable triangulation
flip_generators(L, T, e, col) ==
    [T EXCEPT !.subspace.rows = [i \in 1..Len(@) |->
        [j \in 0..(L.subspace.ncols - 1) |->
            IF j # norm(L, e)
            THEN @[i][j]
            ELSE IF col = RED
            THEN rat_sub(@[i][norm(L, L.fp[L.fp[L.ep[e]]])], @[i][norm(L, L.fp[e])])
            ELSE rat_sub(@[i][norm(L, L.fp[e])], @[i][norm(L, L.fp[L.fp[L.ep[e]]])])]]]

tri_flip_generators(L, e, col) ==
    IF ~L.mutable \/ ~L.matrix_mutable \/ tri_flip(L, e, col).exc # ""
    THEN Raise("ValueError", L)
    ELSE Return(flip_generators(L, tri_flip(L, e, col).val, e, col))

\* the two triangles next to e are coloured (e, RED, BLUE)
is_backward_flippable(T, e) ==
    /\ T.colouring[T.fp[e]] = RED
    /\ T.colouring[T.fp[T.fp[e]]] = BLUE
    /\ T.colouring[T.fp[T.ep[e]]] = RED
    /\ T.colouring[T.fp[T.fp[T.ep[e]]]] = BLUE

\* (e,a,b)(E,c,d) becomes (e,d,a)(E,b,c)
flip_back_faces(T, e) ==
    [i \in 0..(T.n - 1) |->
        CASE i = e -> T.fp[T.fp[T.ep[e]]]
          [] i = T.fp[T.fp[T.ep[e]]] -> T.fp[e]
          [] i = T.fp[e] -> e
          [] i = T.ep[e] -> T.fp[T.fp[e]]
          [] i = T.fp[T.fp[e]] -> T.fp[T.ep[e]]
          [] i = T.fp[T.ep[e]] -> T.ep[e]
          [] OTHER -> T.fp[i]]

\* VeeringTriangulation.flip_back(e, col, Gx=Gx): the column of e becomes
\* the sum of the columns of the sides a and d
flip_back_generators(L, e, col) ==
    [L EXCEPT !.fp = flip_back_faces(L, e),
              !.colouring = [i \in 0..(L.n - 1) |->
                  IF i = e \/ i = L.ep[e] THEN col ELSE L.colouring[i]],
              !.subspace.rows = [i \in 1..Len(@) |->
                  [j \in 0..(L.subspace.ncols - 1) |->
                      IF j # norm(L, e)
                      THEN @[i][j]
                      ELSE rat_sub(@[i][norm(L, L.fp[L.fp[L.ep[e]]])],
                                   rat_neg(@[i][norm(L, L.fp[e])]))]]]

tri_flip_back_generators(L, e, col) ==
    IF \/ ~L.mutable
       \/ ~L.matrix_mutable
       \/ ~(e \in 0..(L.n - 1) /\ col \in {RED, BLUE} /\ is_backward_flippable(L, e))
    THEN Raise("ValueError", L)
    ELSE Return(flip_back_generators(L, e, col))

\* flip and flip_back, the echelonize() of lines 577 and 581
echelonize_after(r) == IF r.exc # "" THEN r ELSE family_echelonize(r.val)

\* the flip without the echelonize() that follows it
family_flip_only(L, e, col) == tri_flip_generators(L, e, col)

\* VeeringTriangulationLinearFamily.flip(e, col); val is self after the call
family_flip(L, e, col) == echelonize_after(tri_flip_generators(L, e, col))

\* VeeringTriangulationLinearFamily.flip_back(e, col)
family_flip_back(L, e, col) == echelonize_after(tri_flip_back_generators(L, e, col))

(***************************************************************************)
(* linear_family.py: the polytope of the non-negative vectors of the       *)
(* subspace, given by its points with whole coordinates up to MaxPoint     *)
(***************************************************************************)
\* largest coordinate of a point of the polytope
MaxPoint == 3

\* the row of a matrix with the whole numbers x
row_of(x) == [j \in DOMAIN x |-> <<x[j], 1>>]

\* x satisfies the equations of _set_subspace_constraints, lines 257-258:
\* it is orthogonal to the right kernel of the subspace
in_subspace(M, x) ==
    rank([M EXCEPT !.rows = Append(@, row_of(x))]) = rank(M)

\* the polytope with no lower bound on the coordinates
train_track_polytope_unbounded(L) ==
    { x \in [0..(num_edges(L) - 1) -> (0 - MaxPoint)..MaxPoint] :
        in_subspace(L.subspace, x) }

\* train_track_polytope(), lines 433-439, for low_bound = 0 and the
\* VERTICAL slope
train_track_polytope(L) ==
    { x \in [0..(num_edges(L) - 1) -> 0..MaxPoint] : in_subspace(L.subspace, x) }

\* the elements of a set in a sequence
RECURSIVE listed(_)
RECURSIVE listed_after(_, _)
listed(S) == IF S = {} THEN <<>> ELSE listed_after(CHOOSE x \in S : TRUE, S)

listed_after(x, S) == <<row_of(x)>> \o listed(S \ {x})

\* the dimension of a polyhedron that holds the origin
polyhedron_dimension(ncols, P) == rank([ncols |-> ncols, rows |-> listed(P)])

\* dimension()
dimension(L) == Len(L.subspace.rows)

\* is_core(), line 463
is_core(L) ==
    polyhedron_dimension(L.subspace.ncols, train_track_polytope(L)) = Len(L.subspace.rows)

(***************************************************************************)
(* The session of one linear family: fam is the family L, last the latest  *)
(* call with L as it was before the call in last.arg.self.                 *)
(***************************************************************************)
\* largest numerator and denominator of an entry of the subspace
MaxCoefficient == 3

\* the arguments of the constructor: a triangulation of the torus, rows of
\* generators, mutable; the last two lists are not families of the torus
FamilyArgs ==
    { <<Torus(<<RED, RED, BLUE>>), rows, mutable>> :
        rows \in { << <<1, 1, 0>>, <<0, 1, 1>> >>,
                   << <<2, 3, 1>> >>,
                   << <<1, 1, 0>> >>,
                   << <<1, 0, -1>> >>,
                   << <<1, 0, 0>> >>,
                   << <<1, 1, 0>>, <<2, 2, 0>> >> },
        mutable \in BOOLEAN }

\* the entries of the subspace of r.val stay within MaxCoefficient
WithinCoefficients(r) ==
    \A i \in 1..Len(r.val.subspace.rows), j \in 0..(r.val.subspace.ncols - 1) :
        /\ abs(r.val.subspace.rows[i][j][1]) <= MaxCoefficient
        /\ r.val.subspace.rows[i][j][2] <= MaxCoefficient

\* a method of L was called: r.val is L after the call, also when it raised
FamilyCalled(op, arg, r) ==
    /\ last.op = "idle"
    /\ WithinCoefficients(r)
    /\ fam' = r.val
    /\ last' = [op |-> op, arg |-> arg, exc |-> r.exc, ret |-> None]
    /\ UNCHANGED <<F, io, res>>

InitFamily ==
    /\ \E a \in FamilyArgs :
        /\ VeeringTriangulationLinearFamily(a[1], 3, a[2], a[3]).exc = ""
        /\ fam = VeeringTriangulationLinearFamily(a[1], 3, a[2], a[3]).val
        /\ last = [op |-> "__init__", arg |-> [rows |-> a[2], mutable |-> a[3]],
                   exc |-> "", ret |-> None]
    /\ F = None
    /\ io = None
    /\ res = None

\* L = VeeringTriangulationLinearFamily(vt, rows, mutable=mutable)
FamilyNew ==
    /\ last.op = "idle"
    /\ \E a \in FamilyArgs :
        /\ fam' = IF VeeringTriangulationLinearFamily(a[1], 3, a[2], a[3]).exc = ""
                  THEN VeeringTriangulationLinearFamily(a[1], 3, a[2], a[3]).val
                  ELSE fam
        /\ last' = [op |-> "__init__", arg |-> [rows |-> a[2], mutable |-> a[3]],
                    exc |-> VeeringTriangulationLinearFamily(a[1], 3, a[2], a[3]).exc,
                    ret |-> None]
    /\ UNCHANGED <<F, io, res>>

\* L.flip(e, col)
FamilyFlip ==
    \E e \in 0..(fam.n - 1), col \in {RED, BLUE} :
        FamilyCalled("flip", [self |-> fam, e |-> e, col |-> col],
                     family_flip(fam, e, col))

\* L.flip_back(e, col)
FamilyFlipBack ==
    \E e \in 0..(fam.n - 1), col \in {RED, BLUE} :
        FamilyCalled("flip_back", [self |-> fam, e |-> e, col |-> col],
                     family_flip_back(fam, e, col))

\* L.relabel(p)
FamilyRelabel ==
    /\ last.op = "idle"
    /\ \E p \in Relabellings \cup BadRelabellings :
        FamilyCalled("relabel", [self |-> fam, p |-> p], family_relabel(fam, p))

\* L.rotate()
FamilyRotate ==
    /\ last.op = "idle"
    /\ FamilyCalled("rotate", [self |-> fam], family_rotate(fam))

\* L.set_immutable()
FamilySetImmutable ==
    /\ last.op = "idle"
    /\ FamilyCalled("set_immutable", [self |-> fam], Return(family_set_immutable(fam)))

\* hash(L)
FamilyHash ==
    /\ last.op = "idle"
    /\ last' = [op |-> "__hash__", arg |-> [self |-> fam],
                exc |-> family_hash(fam).exc, ret |-> None]
    /\ UNCHANGED <<fam, F, io, res>>

\* L.is_core()
FamilyIsCore ==
    /\ last.op = "idle"
    /\ last' = [op |-> "is_core", arg |-> [self |-> fam], exc |-> "",
                ret |-> is_core(fam)]
    /\ UNCHANGED <<fam, F, io, res>>

\* L = L.copy(mutable): the session goes on with the copy
FamilyCopy ==
    /\ last.op = "idle"
    /\ \E mutable \in {None, "True", "False"} :
        /\ fam' = family_copy(fam, mutable).val
        /\ last' = [op |-> "copy", arg |-> [self |-> fam, mutable |-> mutable],
                    exc |-> "", ret |-> family_copy(fam, mutable).same]
    /\ UNCHANGED <<F, io, res>>

NextFamily ==
    \/ Continue
    \/ FamilyNew
    \/ FamilyFlip
    \/ FamilyFlipBack
    \/ FamilyRelabel
    \/ FamilyRotate
    \/ FamilySetImmutable
    \/ FamilyHash
    \/ FamilyIsCore
    \/ FamilyCopy

SpecFamily == InitFamily /\ [][NextFamily]_vars

(***************************************************************************)
(* The session of a family and its copy: fam is the family L, res.val the  *)
(* family K that L.copy(mutable) returned.  res.same tells that K is L     *)
(* itself and res.shared names the attributes of K bound to the very       *)
(* objects of L: what a call writes into one of these is seen through the  *)
(* other family.                                                           *)
(***************************************************************************)
\* calls made in one session of a family and its copy
MaxCopyCalls == 3

NoCopy == [of |-> "none", same |-> FALSE, shared |-> {}, val |-> None]

\* the family K after a call left the other family as after: the shared
\* attributes are those of after
seen_through(K, same, shared, after) ==
    IF same
    THEN after
    ELSE [K EXCEPT !.fp = IF "fp" \in shared THEN after.fp ELSE @,
                   !.ep = IF "ep" \in shared THEN after.ep ELSE @,
                   !.colouring = IF "colouring" \in shared THEN after.colouring ELSE @,
                   !.subspace = IF "subspace" \in shared THEN after.subspace ELSE @,
                   !.matrix_mutable = IF "subspace" \in shared
                                      THEN after.matrix_mutable ELSE @]

\* a method was called on L (who = "self") or on K (who = "result"): r.val
\* is that family after the call, rebound the attributes the call binds to
\* new objects; last.ret counts the calls of the session
CopyCalled(op, who, r, rebound) ==
    /\ last.ret < MaxCopyCalls
    /\ WithinCoefficients(r)
    /\ last' = [op |-> op, arg |-> [who |-> who], exc |-> r.exc, ret |-> last.ret + 1]
    /\ fam' = IF who = "self"
              THEN r.val
              ELSE seen_through(fam, res.same, res.shared, r.val)
    /\ res' = IF res.of = "none"
              THEN res
              ELSE [res EXCEPT
                      !.val = IF who = "result"
                              THEN r.val
                              ELSE seen_through(@, res.same, res.shared, r.val),
                      !.shared = IF res.same \/ r.exc # "" THEN @ ELSE @ \ rebound]
    /\ UNCHANGED <<F, io>>

\* the family a call of who is made on
Receivers == {who \in {"self", "result"} : who = "result" => res.of = "copy"}

Receiver(who) == IF who = "self" THEN fam ELSE res.val

InitCopy ==
    /\ \E a \in FamilyArgs :
        /\ VeeringTriangulationLinearFamily(a[1], 3, a[2], a[3]).exc = ""
        /\ fam = VeeringTriangulationLinearFamily(a[1], 3, a[2], a[3]).val
    /\ last = [op |-> "__init__", arg |-> [who |-> "self"], exc |-> "", ret |-> 0]
    /\ F = None
    /\ io = None
    /\ res = NoCopy

\* K = L.copy(mutable)
CopyFamily ==
    /\ last.ret < MaxCopyCalls
    /\ \E mutable \in {None, "True", "False"} :
        /\ res' = [of |-> "copy",
                   same |-> family_copy(fam, mutable).same,
                   shared |-> family_copy(fam, mutable).shared,
                   val |-> family_copy(fam, mutable).val]
        /\ last' = [op |-> "copy", arg |-> [who |-> "self", mutable |-> mutable],
                    exc |-> "", ret |-> last.ret + 1]
    /\ UNCHANGED <<fam, F, io>>

\* L.flip(e, col) or K.flip(e, col)
CopyFlip ==
    \E who \in Receivers, e \in 0..(fam.n - 1), col \in {RED, BLUE} :
        CopyCalled("flip", who, family_flip(Receiver(who), e, col), {})

\* L.flip_back(e, col) or K.flip_back(e, col)
CopyFlipBack ==
    \E who \in Receivers, e \in 0..(fam.n - 1), col \in {RED, BLUE} :
        CopyCalled("flip_back", who, family_flip_back(Receiver(who), e, col), {})

\* L.relabel(p) or K.relabel(p)
CopyRelabel ==
    \E who \in Receivers, p \in Relabellings :
        CopyCalled("relabel", who, family_relabel(Receiver(who), p), {})

\* L.rotate() or K.rotate(): line 246 binds a new matrix
CopyRotate ==
    \E who \in Receivers :
        CopyCalled("rotate", who, family_rotate(Receiver(who)), {"subspace"})

\* L.set_immutable() or K.set_immutable()
CopySetImmutable ==
    \E who \in Receivers :
        CopyCalled("set_immutable", who, Return(family_set_immutable(Receiver(who))), {})

NextCopy ==
    \/ CopyFamily
    \/ CopyFlip
    \/ CopyFlipBack
    \/ CopyRelabel
    \/ CopyRotate
    \/ CopySetImmutable

SpecFamilyCopy == InitCopy /\ [][NextCopy]_vars

(***************************************************************************)
(* flatsurf_conversion.py: the slope of the vector of a half-edge, and the *)
(* colour and x-orientation the conversion derives from it                 *)
(***************************************************************************)
\* largest coordinate of a vector given to oriented_slope
MaxCoordinate == 3

\* the value 0 that oriented_slope returns, written as a pair
NoSlope == <<0, 0>>

\* oriented_slope with rotate = -1 answering as rotate = 1
oriented_slope_one_way(a, rotate) ==
    IF a[1] = 0 /\ a[2] = 0 THEN Raise("ValueError", None)
    ELSE IF a[1] > 0 /\ a[2] > 0 THEN Return(<<1, 1>>)
    ELSE IF a[1] < 0 /\ a[2] < 0 THEN Return(<<-1, -1>>)
    ELSE IF a[1] > 0 /\ a[2] < 0 THEN Return(<<1, -1>>)
    ELSE IF a[1] < 0 /\ a[2] > 0 THEN Return(<<-1, 1>>)
    ELSE IF rotate = 0 THEN Return(NoSlope)
    ELSE IF rotate \in {1, -1}
    THEN (IF a[1] > 0 THEN Return(<<1, 1>>)
          ELSE IF a[2] > 0 THEN Return(<<-1, 1>>)
          ELSE IF a[1] < 0 THEN Return(<<-1, -1>>)
          ELSE Return(<<1, -1>>))
    ELSE Raise("ValueError", None)

\* oriented_slope(a, rotate), lines 66-99
oriented_slope(a, rotate) ==
    IF a[1] = 0 /\ a[2] = 0 THEN Raise("ValueError", None)
    ELSE IF a[1] > 0 /\ a[2] > 0 THEN Return(<<1, 1>>)
    ELSE IF a[1] < 0 /\ a[2] < 0 THEN Return(<<-1, -1>>)
    ELSE IF a[1] > 0 /\ a[2] < 0 THEN Return(<<1, -1>>)
    ELSE IF a[1] < 0 /\ a[2] > 0 THEN Return(<<-1, 1>>)
    ELSE IF rotate = 0 THEN Return(NoSlope)
    ELSE IF rotate = 1
    THEN (IF a[1] > 0 THEN Return(<<1, 1>>)
          ELSE IF a[2] > 0 THEN Return(<<-1, 1>>)
          ELSE IF a[1] < 0 THEN Return(<<-1, -1>>)
          ELSE Return(<<1, -1>>))
    ELSE IF rotate = -1
    THEN (IF a[1] > 0 THEN Return(<<1, -1>>)
          ELSE IF a[2] > 0 THEN Return(<<1, 1>>)
          ELSE IF a[1] < 0 THEN Return(<<-1, 1>>)
          ELSE Return(<<-1, -1>>))
    ELSE Raise("ValueError", None)

\* lines 117-147: the x-orientation and the colour of a half-edge with the
\* vector a, "R" for the slope 1 and "B" otherwise
half_edge_of(s) ==
    IF s.exc # ""
    THEN s
    ELSE Return([x_orientation |-> s.val[1],
                 colour |-> IF s.val[1] * s.val[2] = 1 THEN RED ELSE BLUE])

half_edge(a) == half_edge_of(oriented_slope(a, 1))

\* the vectors and the values of rotate given to oriented_slope
Vectors == ((0 - MaxCoordinate)..MaxCoordinate) \X ((0 - MaxCoordinate)..MaxCoordinate)

Rotations == {-2, -1, 0, 1, 2}

InitSlope ==
    /\ last = Idle
    /\ F = None
    /\ io = None
    /\ res = None
    /\ fam = None

\* oriented_slope(a, rotate)
OrientedSlope ==
    /\ last.op = "idle"
    /\ \E a \in Vectors, rotate \in Rotations :
        last' = [op |-> "oriented_slope", arg |-> [a |-> a, rotate |-> rotate],
                 exc |-> oriented_slope(a, rotate).exc,
                 ret |-> oriented_slope(a, rotate).val]
    /\ UNCHANGED <<F, io, res, fam>>

\* the conversion reading the half-edge with the vector a
HalfEdge ==
    /\ last.op = "idle"
    /\ \E a \in Vectors :
        last' = [op |-> "half_edge", arg |-> [a |-> a, rotate |-> 1],
                 exc |-> half_edge(a).exc, ret |-> half_edge(a).val]
    /\ UNCHANGED <<F, io, res, fam>>

NextSlope ==
    \/ Continue
    \/ OrientedSlope
    \/ HalfEdge

SpecSlope == InitSlope /\ [][NextSlope]_vars

(***************************************************************************)
(* linear_family.py: the comparison of subspaces and of families           *)
(***************************************************************************)
\* x < y for two fractions with positive denominators
rat_lt(x, y) == x[1] * y[2] < y[1] * x[2]

\* (r1 > r2) - (r1 < r2) for two rows of one length, compared entry by
\* entry from column j on
RECURSIVE row_cmp(_, _, _, _)
row_cmp(r1, r2, j, ncols) ==
    IF j = ncols THEN 0
    ELSE IF rat_lt(r1[j], r2[j]) THEN -1
    ELSE IF rat_lt(r2[j], r1[j]) THEN 1
    ELSE row_cmp(r1, r2, j + 1, ncols)

\* (a > b) - (a < b) for two arrays, from the index j on
RECURSIVE array_cmp(_, _, _)
array_cmp(a, b, j) ==
    IF j \notin DOMAIN a /\ j \notin DOMAIN b THEN 0
    ELSE IF j \notin DOMAIN a THEN -1
    ELSE IF j \notin DOMAIN b THEN 1
    ELSE IF a[j] < b[j] THEN -1
    ELSE IF a[j] > b[j] THEN 1
    ELSE array_cmp(a, b, j + 1)

\* subspace_cmp, lines 120-124: the first pair of rows that differ
RECURSIVE rows_cmp(_, _, _)
rows_cmp(E1, E2, i) ==
    IF i > Len(E1.rows) \/ i > Len(E2.rows)
    THEN 0
    ELSE IF row_cmp(E1.rows[i], E2.rows[i], 0, E1.ncols) # 0
    THEN row_cmp(E1.rows[i], E2.rows[i], 0, E1.ncols)
    ELSE rows_cmp(E1, E2, i + 1)

\* subspace_cmp(subspace1, subspace2), lines 104-124.  Line 111 raises
\* "ValueErrror", a name that is not defined: NameError.  Line 115 returns
\* False, which is the number 0 wherever the value is used as a number
subspace_cmp(subspace1, subspace2) ==
    IF subspace1.ncols # subspace2.ncols
    THEN Raise("ValueError", None)
    ELSE IF rank(subspace1) # Len(subspace1.rows)
    THEN Raise("ValueError", None)
    ELSE IF rank(subspace2) # Len(subspace2.rows)
    THEN Raise("NameError", None)
    ELSE IF Len(subspace1.rows) # Len(subspace2.rows)
    THEN Return(0)
    ELSE Return(rows_cmp(echelon_form(subspace1), echelon_form(subspace2), 1))

\* the comparisons of _richcmp_ before the one of the subspaces
arrays_cmp(L, K) ==
    IF L.n # K.n THEN (IF L.n < K.n THEN -1 ELSE 1)
    ELSE IF array_cmp(L.colouring, K.colouring, 0) # 0
    THEN array_cmp(L.colouring, K.colouring, 0)
    ELSE IF array_cmp(L.fp, K.fp, 0) # 0
    THEN array_cmp(L.fp, K.fp, 0)
    ELSE array_cmp(L.ep, K.ep, 0)

\* VeeringTriangulationLinearFamily._richcmp_(other, op), lines 394-412:
\* every path ends in a call of rich_to_bool, a name the module neither
\* imports nor defines
_richcmp_(L, K, op) ==
    IF arrays_cmp(L, K) # 0
    THEN Raise("NameError", None)
    ELSE IF subspace_cmp(L.subspace, K.subspace).exc # ""
    THEN subspace_cmp(L.subspace, K.subspace)
    ELSE Raise("NameError", None)

\* the matrices given to subspace_cmp: subspaces of dimension 1 and 2 of
\* the space of three columns, two of them written with two sets of rows,
\* a matrix that is not of full rank and one with two columns
Subspaces ==
    { matrix(3, rows) :
        rows \in { << <<1, 1, 0>>, <<0, 1, 1>> >>,
                   << <<0, 1, 1>>, <<1, 2, 1>> >>,
                   << <<1, 1, 0>>, <<0, 0, 1>> >>,
                   << <<2, 3, 1>> >>,
                   << <<1, 1, 0>> >>,
                   << <<2, 2, 0>> >>,
                   << <<1, 0, -1>> >>,
                   << <<1, 1, 0>>, <<2, 2, 0>> >> } }
    \cup { matrix(2, << <<1, 1>> >>) }

\* the families given to _richcmp_
Families ==
    { VeeringTriangulationLinearFamily(Torus(cols), 3, rows, FALSE).val :
        cols \in { <<RED, RED, BLUE>> },
        rows \in { << <<1, 1, 0>>, <<0, 1, 1>> >>,
                   << <<2, 3, 1>> >>,
                   << <<1, 1, 0>> >>,
                   << <<1, 0, -1>> >> } }
    \cup { VeeringTriangulationLinearFamily(Torus(<<RED, BLUE, BLUE>>), 3,
                                            << <<1, 1, 0>>, <<0, 1, 1>> >>, FALSE).val }

InitCompare ==
    /\ last = Idle
    /\ F = None
    /\ io = None
    /\ res = None
    /\ fam = None

\* subspace_cmp(A, B)
SubspaceCmp ==
    /\ last.op = "idle"
    /\ \E A \in Subspaces, B \in Subspaces :
        last' = [op |-> "subspace_cmp", arg |-> [A |-> A, B |-> B],
                 exc |-> subspace_cmp(A, B).exc, ret |-> subspace_cmp(A, B).val]
    /\ UNCHANGED <<F, io, res, fam>>

\* L._richcmp_(K, op)
RichCmp ==
    /\ last.op = "idle"
    /\ \E L \in Families, K \in Families, op \in {"<", "<=", "==", "!=", ">", ">="} :
        last' = [op |-> "_richcmp_", arg |-> [self |-> L, other |-> K, op |-> op],
                 exc |-> _richcmp_(L, K, op).exc, ret |-> _richcmp_(L, K, op).val]
    /\ UNCHANGED <<F, io, res, fam>>

NextCompare ==
    \/ Continue
    \/ SubspaceCmp
    \/ RichCmp

SpecCompare == InitCompare /\ [][NextCompare]_vars

(***************************************************************************)
(* Properties                                                              *)
(***************************************************************************)
\* C1: in every state reached through the constructor, flip, relabel, *=, *
\* and **, building the sequence again from start, the logged (edge, colour)
\* flips and the relabelling gives the same start, relabelling, triples and
\* end: the assertions of _check hold
CheckHolds == _check(F) = ""

\* C1 happens: a flip was logged after a relabelling that moves edges
FlipAfterRelabel ==
    /\ last.op = "flip"
    /\ last.exc = ""
    /\ Len(F.flips) >= 2
    /\ ~perm_is_one(F.relabelling)
    /\ F.relabelling[F.flips[Len(F.flips)][1]] # F.flips[Len(F.flips)][1]

\* the product F * G as the program returns it
Product(A, G) == __mul__(A, G)

\* C2: composition is associative: when F was made as A * G, then for every
\* H that starts where G ends, (A * G) * H and A * (G * H) are both defined
\* and have the same start, end, flip triples and relabelling
Associative ==
    (last.op = "__mul__" /\ last.exc = "") =>
        \A H \in Operands(F) :
            last.arg.other.end = H.start =>
                LET left == Product(F, H)
                    tail == Product(last.arg.other, H)
                    right == Product(last.arg.self, tail.val)
                IN  /\ left.exc = ""
                    /\ tail.exc = ""
                    /\ right.exc = ""
                    /\ eq(left.val, right.val)

\* C2 happens: F = A * G was made, A and G with flips and relabellings that
\* move edges, and some H with a flip starts where G ends
ThreeFactors ==
    /\ last.op = "__mul__"
    /\ last.exc = ""
    /\ Len(last.arg.self.flips) >= 1
    /\ Len(last.arg.other.flips) >= 1
    /\ ~perm_is_one(last.arg.self.relabelling)
    /\ ~perm_is_one(last.arg.other.relabelling)
    /\ \E H \in Operands(F) :
        /\ last.arg.other.end = H.start
        /\ Len(H.flips) >= 1
        /\ Len(Product(F, H).val.flips) = Len(F.flips) + 1

\* the representative among 0..ne-1 of the edge of half-edge x
Representative(T, x) == IF x < num_edges(T) THEN x ELSE T.ep[x]

\* C3: for A.end = G.start, A * G and A *= G return; the result starts as A,
\* ends as G, its relabelling is that of A followed by that of G, and its
\* flips are those of A followed by those of G, each edge replaced by the
\* representative of its preimage under the relabelling of A, colours kept;
\* after A *= G the object itself is in that state
ProductShape ==
    (/\ last.op \in {"__mul__", "__imul__"}
     /\ is_flip_sequence(last.arg.other)
     /\ last.arg.self.end = last.arg.other.start) =>
        /\ last.exc = ""
        /\ F.start = last.arg.self.start
        /\ F.end = last.arg.other.end
        /\ F.relabelling = [i \in 0..(F.start.n - 1) |->
                last.arg.other.relabelling[last.arg.self.relabelling[i]]]
        /\ Len(F.flips) = Len(last.arg.self.flips) + Len(last.arg.other.flips)
        /\ \A i \in 1..Len(last.arg.self.flips) : F.flips[i] = last.arg.self.flips[i]
        /\ \A i \in 1..Len(last.arg.other.flips) :
            F.flips[Len(last.arg.self.flips) + i] =
                << Representative(F.start,
                        CHOOSE x \in 0..(F.start.n - 1) :
                            last.arg.self.relabelling[x] = last.arg.other.flips[i][1]),
                   last.arg.other.flips[i][2],
                   last.arg.other.flips[i][3] >>

\* C3 happens: F *= G was made, G with a flip whose edge the relabelling of
\* F moves
ProductPulledBack ==
    /\ last.op = "__imul__"
    /\ last.exc = ""
    /\ Len(last.arg.self.flips) >= 1
    /\ Len(last.arg.other.flips) >= 1
    /\ ~perm_is_one(last.arg.other.relabelling)
    /\ F.flips[Len(F.flips)][1] # last.arg.other.flips[Len(last.arg.other.flips)][1]

\* the sequence with no flip on T
EmptySequence(T) == VeeringFlipSequence(T, <<>>, NoRelabelling, None)

\* C4: for every closed F, F * VeeringFlipSequence(F.end) and
\* VeeringFlipSequence(F.start) * F are defined and equal to F
IdentityElement ==
    is_closed(F) =>
        /\ EmptySequence(F.end).exc = ""
        /\ Product(F, EmptySequence(F.end).val).exc = ""
        /\ eq(Product(F, EmptySequence(F.end).val).val, F)
        /\ EmptySequence(F.start).exc = ""
        /\ Product(EmptySequence(F.start).val, F).exc = ""
        /\ eq(Product(EmptySequence(F.start).val, F).val, F)

\* C4 happens: a closed sequence with flips and a relabelling that moves
\* edges was multiplied by the empty sequence on its end
MultipliedByEmpty ==
    /\ last.op = "__mul__"
    /\ last.exc = ""
    /\ is_closed(last.arg.self)
    /\ Len(last.arg.self.flips) >= 1
    /\ ~perm_is_one(last.arg.self.relabelling)
    /\ last.arg.other = EmptySequence(last.arg.self.end).val
    /\ F = last.arg.self

\* C5: for closed A, A ** 0 has no flips, the identity relabelling and
\* start = end = A.start, and for k >= 2, A ** k is defined and equal to
\* A * (A ** (k - 1))
PowerConsistent ==
    (last.op = "__pow__" /\ is_closed(last.arg.self) /\ last.arg.k >= 0) =>
        /\ last.exc = ""
        /\ last.arg.k = 0 =>
            /\ F.flips = <<>>
            /\ perm_is_one(F.relabelling)
            /\ F.start = last.arg.self.start
            /\ F.end = last.arg.self.start
        /\ last.arg.k >= 2 =>
            /\ __pow__(last.arg.self, last.arg.k - 1).exc = ""
            /\ Product(last.arg.self, __pow__(last.arg.self, last.arg.k - 1).val).exc = ""
            /\ eq(F, Product(last.arg.self,
                             __pow__(last.arg.self, last.arg.k - 1).val).val)

\* C5 happens: the cube of a closed sequence whose relabelling moves edges
CubeTaken ==
    /\ last.op = "__pow__"
    /\ last.exc = ""
    /\ last.arg.k = 3
    /\ Len(last.arg.self.flips) >= 1
    /\ ~perm_is_one(last.arg.self.relabelling)
    /\ Len(F.flips) = 3 * Len(last.arg.self.flips)

\* the colour an edge shows after a quarter turn, PURPLE left as it is
Turned(col) == IF col = RED THEN BLUE ELSE IF col = BLUE THEN RED ELSE col

\* V is T after a quarter turn, up to the edges either of them shows PURPLE
QuarterTurn(T, V) ==
    /\ V.n = T.n
    /\ V.fp = T.fp
    /\ V.ep = T.ep
    /\ \A i \in 0..(T.n - 1) :
        (T.colouring[i] # PURPLE /\ V.colouring[i] # PURPLE) =>
            V.colouring[i] = Turned(T.colouring[i])

\* C6 as the specification states it: F.inverse() ends where F starts,
\* F * F.inverse() is defined, and it is closed on F.start
InverseLaw ==
    (last.op = "inverse" /\ last.exc = "") =>
        /\ last.ret.end = F.start
        /\ F.end = last.ret.start
        /\ Product(F, last.ret).exc = ""
        /\ Product(F, last.ret).val.start = F.start
        /\ Product(F, last.ret).val.end = F.start

\* C6: when F.inverse() returns, it has as many flips as F, it starts on the
\* end of F after a quarter turn (same faces, RED and BLUE exchanged) and
\* ends on the start of F after a quarter turn; its end is not F.start, its
\* start is not F.end, and F * F.inverse() raises ValueError
InverseConjugate ==
    (last.op = "inverse" /\ last.exc = "") =>
        /\ Len(last.ret.flips) = Len(F.flips)
        /\ QuarterTurn(F.end, last.ret.start)
        /\ QuarterTurn(F.start, last.ret.end)
        /\ ~any_colour(F.start, PURPLE) =>
            /\ ~any_colour(last.ret.start, PURPLE)
            /\ ~any_colour(last.ret.end, PURPLE)
        /\ last.ret.end # F.start
        /\ last.ret.start # F.end
        /\ Product(F, last.ret).exc = "ValueError"

\* C6 happens: the inverse of a sequence with two flips or more and a
\* relabelling that moves edges was returned
InverseReturned ==
    /\ last.op = "inverse"
    /\ last.exc = ""
    /\ Len(F.flips) >= 2
    /\ ~perm_is_one(F.relabelling)

\* C7: when A is closed and A.is_pseudo_anosov() is true, then for k >= 1
\* A ** k is returned and is pseudo-Anosov as well
PseudoAnosovPowers ==
    (/\ last.op = "__pow__"
     /\ last.arg.k >= 1
     /\ is_closed(last.arg.self)
     /\ is_pseudo_anosov(last.arg.self) = Return(TRUE)) =>
        /\ last.exc = ""
        /\ is_pseudo_anosov(F) = Return(TRUE)

\* C7 happens: the square of a pseudo-Anosov sequence was taken
PseudoAnosovSquared ==
    /\ last.op = "__pow__"
    /\ last.exc = ""
    /\ last.arg.k = 2
    /\ is_pseudo_anosov(last.arg.self) = Return(TRUE)
    /\ Len(F.flips) = 2 * Len(last.arg.self.flips)

\* the edge map: x goes to the representative of relabelling[x]
EdgeMap(S, x) == Representative(S.start, S.relabelling[x])

RECURSIVE EdgeMapIterated(_, _, _)
EdgeMapIterated(S, x, k) ==
    IF k = 0 THEN x ELSE EdgeMapIterated(S, EdgeMap(S, x), k - 1)

\* the edges met from x under the edge map
Orbit(S, x) == { EdgeMapIterated(S, x, k) : k \in 0..num_edges(S.start) }

\* the edges of the flip log
Logged(S) == { S.flips[i][1] : i \in 1..Len(S.flips) }

\* C8: on a closed sequence unflipped_edges() returns the edges of 0..ne-1
\* whose orbit under the edge map meets no edge of the flip log; that set
\* has no edge of the log and the edge map sends it onto itself
UnflippedOrbits ==
    (last.op = "unflipped_edges" /\ is_closed(F)) =>
        /\ last.exc = ""
        /\ last.ret = { e \in 0..(num_edges(F.start) - 1) :
                            Orbit(F, e) \cap Logged(F) = {} }
        /\ last.ret \cap Logged(F) = {}
        /\ { EdgeMap(F, e) : e \in last.ret } = last.ret

\* C8 happens: an edge that is not in the log was left out of the answer,
\* and another edge was returned
UnflippedPropagated ==
    /\ last.op = "unflipped_edges"
    /\ last.exc = ""
    /\ last.ret # {}
    /\ \E e \in 0..(num_edges(F.start) - 1) : e \notin last.ret /\ e \notin Logged(F)

\* C9: is_pseudo_anosov() returns, and answers true exactly when the
\* sequence is closed and unflipped_edges() is empty; on a sequence that is
\* not closed it answers false and unflipped_edges() raises
PseudoAnosovAnswer ==
    /\ last.op = "is_pseudo_anosov" =>
        /\ last.exc = ""
        /\ last.ret = (F.start = F.end /\ unflipped_edges(F) = Return({}))
        /\ F.start # F.end => last.ret = FALSE
    /\ (last.op = "unflipped_edges" /\ F.start # F.end) => last.exc # ""

\* C9 happens: is_pseudo_anosov() was asked of a sequence that is not closed
\* and has flips
AskedOfOpenSequence ==
    /\ last.op = "is_pseudo_anosov"
    /\ F.start # F.end
    /\ Len(F.flips) >= 1
    /\ last.ret = FALSE

\* C10: a list of (edge, colour) pairs, edges non-negative and colours RED,
\* BLUE, PURPLE or GREEN, the empty list among them, is read back from the
\* string written from it; and the sequence built from F.start, the string
\* of the flips of F and F.relabelling is equal to F
StringRoundTrip ==
    /\ io.stage = "read" => io.back = Return(io.seq)
    /\ last.op = "__init__" => (last.exc = "" /\ eq(last.ret, F))

\* C10 happens: a list of two pairs, one with an edge of two digits and one
\* GREEN, was written and read back
TwoPairsReadBack ==
    /\ io.stage = "read"
    /\ io.of = "list"
    /\ Len(io.seq) = 2
    /\ io.seq[1][1] >= 10
    /\ io.seq[2][2] = GREEN
    /\ io.back.exc = ""

\* C11: F *= G and F * G raise TypeError when G is not a flip sequence and
\* ValueError when G is one and F.end differs from G.start; F ** k raises
\* ValueError when k is negative; after each of these errors F is the
\* sequence it was before the call
RejectedUnchanged ==
    /\ (last.op \in {"__mul__", "__imul__"} /\ ~is_flip_sequence(last.arg.other)) =>
        (last.exc = "TypeError" /\ F = last.arg.self)
    /\ (/\ last.op \in {"__mul__", "__imul__"}
        /\ is_flip_sequence(last.arg.other)
        /\ last.arg.self.end # last.arg.other.start) =>
        (last.exc = "ValueError" /\ F = last.arg.self)
    /\ (last.op = "__pow__" /\ last.arg.k < 0) =>
        (last.exc = "ValueError" /\ F = last.arg.self)

\* C11 happens: F *= G was refused for a G with a flip that does not start
\* where F, itself with a flip, ends
ProductRefused ==
    /\ last.op = "__imul__"
    /\ last.exc = "ValueError"
    /\ Len(last.arg.self.flips) >= 1
    /\ Len(last.arg.other.flips) >= 1
    /\ last.arg.self.end # last.arg.other.start

\* C12: the constructor raises ValueError for a start with a GREEN edge and
\* for a start with a PURPLE edge given reduced=False; so no flip sequence
\* the session holds, and none that copy() or inverse() returns, has a GREEN
\* edge in its start
NoGreenStart ==
    /\ (last.op = "__init__" /\ any_colour(last.arg.start, GREEN)) =>
        last.exc = "ValueError"
    /\ (/\ last.op = "__init__"
        /\ last.arg.reduced = "False"
        /\ any_colour(last.arg.start, PURPLE)) =>
        last.exc = "ValueError"
    /\ ~any_colour(F.start, GREEN)
    /\ (last.op \in {"copy", "inverse"} /\ last.exc = "") =>
        ~any_colour(last.ret.start, GREEN)

\* C12 happens: the constructor refused a start with a GREEN edge
GreenRefused ==
    /\ last.op = "__init__"
    /\ any_colour(last.arg.start, GREEN)
    /\ last.exc # ""

\* C13, for VeeringFlipSequence.relabel: an array that is not a permutation
\* of the half-edges is refused with ValueError and the sequence (start,
\* end, flips, relabelling) is left as it was
RelabelRejected ==
    (last.op = "relabel" /\ ~perm_check(last.arg.r, last.arg.self.end.n)) =>
        (last.exc = "ValueError" /\ F = last.arg.self)

\* C13 happens: a sequence with a flip and a relabelling that moves edges
\* was given an array with a value taken twice
RelabelRefused ==
    /\ last.op = "relabel"
    /\ last.exc # ""
    /\ \E i, j \in DOMAIN last.arg.r : i # j /\ last.arg.r[i] = last.arg.r[j]
    /\ Len(F.flips) >= 1
    /\ ~perm_is_one(F.relabelling)

\* C14 as the specification states it: on a sequence that is not closed
\* F ** k raises ValueError for every k, and F.inverse() raises ValueError
ClosureRequired ==
    /\ (last.op = "__pow__" /\ last.arg.self.start # last.arg.self.end) =>
        last.exc = "ValueError"
    /\ (last.op = "inverse" /\ F.start # F.end) => last.exc = "ValueError"

\* C14: on a sequence that is not closed F ** k raises ValueError for every
\* k and leaves F as it was; F.inverse() does not look at closure: when
\* F.start has no PURPLE edge it returns a sequence with as many flips as F
\* that starts on the quarter turn of F.end and ends on that of F.start
ClosureRequiredByPower ==
    /\ (last.op = "__pow__" /\ last.arg.self.start # last.arg.self.end) =>
        (last.exc = "ValueError" /\ F = last.arg.self)
    /\ (last.op = "inverse" /\ F.start # F.end /\ ~any_colour(F.start, PURPLE)) =>
        /\ last.exc = ""
        /\ Len(last.ret.flips) = Len(F.flips)
        /\ last.ret.start = tri_rotate(F.end)
        /\ last.ret.end = tri_rotate(F.start)

\* C14 happens: inverse() returned on a sequence with flips that is not
\* closed
OpenInverseReturned ==
    /\ last.op = "inverse"
    /\ last.exc = ""
    /\ F.start # F.end
    /\ Len(F.flips) >= 1
    /\ last.ret.start # last.ret.end

\* the edges of 0..ne-1 that are PURPLE in F.start
StartPurple == { e \in 0..(num_edges(F.start) - 1) : F.start.colouring[e] = PURPLE }

\* C15: coloured_start() returns no triangulation with a PURPLE edge: it
\* returns F.start with each edge that is PURPLE there given the colour
\* end_colouring() has at its index, RED or BLUE, the other edges as they
\* are, or it raises ValueError naming the smallest edge that is PURPLE in
\* F.start and at its index in end_colouring(); F.start is as it was
ColouredOrRefused ==
    last.op = "coloured_start" =>
        /\ last.exc \in {"", "ValueError"}
        /\ last.exc = "" =>
            /\ ~any_colour(last.ret, PURPLE)
            /\ last.ret.n = F.start.n
            /\ last.ret.fp = F.start.fp
            /\ last.ret.ep = F.start.ep
            /\ \A e \in 0..(num_edges(F.start) - 1) :
                /\ last.ret.colouring[e] = last.ret.colouring[F.start.ep[e]]
                /\ e \in StartPurple =>
                    /\ last.ret.colouring[e] = end_colouring(F)[e]
                    /\ last.ret.colouring[e] \in {RED, BLUE}
                /\ e \notin StartPurple =>
                    last.ret.colouring[e] = F.start.colouring[e]
        /\ last.exc = "ValueError" =>
            /\ coloured_start(F).val \in StartPurple
            /\ end_colouring(F)[coloured_start(F).val] = PURPLE
            /\ \A d \in StartPurple :
                end_colouring(F)[d] = PURPLE => coloured_start(F).val <= d

\* C15 happens: coloured_start() returned on a sequence with a flip and a
\* relabelling that moves edges, an edge that is PURPLE in the start
\* coloured
PurpleColoured ==
    /\ last.op = "coloured_start"
    /\ last.exc = ""
    /\ StartPurple # {}
    /\ Len(F.flips) >= 1
    /\ ~perm_is_one(F.relabelling)

\* C16: under the constructor, flip, relabel, swap, *=, ** and inverse the
\* relabelling of a flip sequence is a bijection of the half-edges 0..n-1
\* that maps the two half-edges of an edge of start onto the two half-edges
\* of an edge of end
RelabellingBijective ==
    /\ perm_check(F.relabelling, F.start.n)
    /\ \A e \in 0..(F.start.n - 1) :
        F.relabelling[F.start.ep[e]] = F.end.ep[F.relabelling[e]]
    /\ (last.op = "inverse" /\ last.exc = "") =>
        /\ perm_check(last.ret.relabelling, last.ret.start.n)
        /\ \A e \in 0..(last.ret.start.n - 1) :
            last.ret.relabelling[last.ret.start.ep[e]]
                = last.ret.end.ep[last.ret.relabelling[e]]

\* C16 happens: swap was called on a sequence whose relabelling moves the
\* edge, and left a relabelling with a value taken twice
SwapCollided ==
    /\ last.op = "swap"
    /\ last.arg.self.relabelling[last.arg.e] \notin
            {last.arg.e, last.arg.self.end.ep[last.arg.e]}
    /\ perm_check(last.arg.self.relabelling, F.start.n)
    /\ ~perm_check(F.relabelling, F.start.n)

\* C17: the sequence that copy(), F * G or F.inverse() returned shares no
\* state with F: a flip, relabel or swap of the result leaves the start,
\* end, flips and relabelling of F as they were, and a flip, relabel or
\* swap of F leaves the result as it was
Independent ==
    [][/\ (last'.op \in {"flip", "relabel", "swap"} /\ last'.arg = "result") => F' = F
       /\ (/\ last'.op \in {"flip", "relabel", "swap"}
           /\ last'.arg = "self"
           /\ res.of # "none") => res'.seq = res.seq]_vars

\* C17 happens: swap on a copy wrote the relabelling of F, which moves
\* edges now while the end of F is where it was
SwapSeenThroughCopy ==
    /\ last.op = "swap"
    /\ last.arg = "result"
    /\ res.of = "copy"
    /\ res.shared
    /\ F.relabelling = res.seq.relabelling
    /\ F.end # res.seq.end
    /\ _check(F) # ""

\* C13, for VeeringTriangulationLinearFamily.relabel: an array that is not
\* a permutation of the half-edges is refused with ValueError and the
\* family, triangulation and subspace, is left as it was
FamilyRelabelRejected ==
    (last.op = "relabel" /\ ~perm_check(last.arg.p, last.arg.self.n)) =>
        (last.exc = "ValueError" /\ fam = last.arg.self)

\* C13 happens: a mutable family was given an array with a value taken
\* twice; the call raised and left the family as it was
FamilyRelabelRefused ==
    /\ last.op = "relabel"
    /\ last.arg.self.mutable
    /\ ~perm_check(last.arg.p, last.arg.self.n)
    /\ last.exc # ""
    /\ fam = last.arg.self

\* C18: after the constructor and after flip, flip_back, relabel and rotate
\* on a mutable family, and after copy and set_immutable, the family passes
\* _check: as many columns as edges, full rank, every row satisfies the
\* switch conditions, the subspace is its own echelon form, and the matrix
\* is mutable exactly when the family is
FamilyChecked == family_check(fam) = ""

\* C18 happens: a flip of a mutable family returned and left a subspace
\* with an entry that is not an integer
FlippedToFraction ==
    /\ last.op = "flip"
    /\ last.exc = ""
    /\ fam # last.arg.self
    /\ \E j \in 0..(fam.subspace.ncols - 1) : fam.subspace.rows[1][j][2] > 1

\* C19: on an immutable family rotate, relabel, flip and flip_back raise
\* and leave the triangulation and the subspace as they were; hash raises
\* ValueError on a mutable family and returns on an immutable one
ImmutableRefuses ==
    /\ (/\ last.op \in {"rotate", "relabel", "flip", "flip_back"}
        /\ ~last.arg.self.mutable) =>
        (last.exc # "" /\ fam = last.arg.self)
    /\ last.op = "__hash__" =>
        last.exc = (IF last.arg.self.mutable THEN "ValueError" ELSE "")

\* C19 happens: rotate was refused by a family made immutable by
\* set_immutable() after a flip
RotateRefused ==
    /\ last.op = "rotate"
    /\ ~last.arg.self.mutable
    /\ last.exc = "ValueError"
    /\ last.arg.self.colouring # Torus(<<RED, RED, BLUE>>).colouring

\* C20: copy(mutable) returns the family itself exactly when the family is
\* immutable and mutable is None or False; otherwise the result has the
\* fp, ep, colouring and subspace of the family by value, in objects of
\* its own, and the flag that was asked for (that of the family for None),
\* and from then on a flip, flip_back, relabel or rotate of one of the two
\* leaves the other as it was
CopyIndependent ==
    /\ [](last.op = "copy" =>
            /\ res.same = (~fam.mutable /\ last.arg.mutable \in {None, "False"})
            /\ res.same => res.val = fam
            /\ ~res.same =>
                /\ res.val.fp = fam.fp
                /\ res.val.ep = fam.ep
                /\ res.val.colouring = fam.colouring
                /\ res.val.subspace = fam.subspace
                /\ res.val.mutable = (IF last.arg.mutable = None
                                      THEN fam.mutable
                                      ELSE last.arg.mutable = "True")
                /\ family_check(res.val) = "")
    /\ [][(/\ res.of = "copy"
            /\ ~res.same
            /\ last'.op \in {"flip", "flip_back", "relabel", "rotate"}) =>
            /\ last'.arg.who = "self" => res'.val = res.val
            /\ last'.arg.who = "result" => fam' = fam]_vars

\* C20 happens: a mutable copy of an immutable family was flipped, and the
\* immutable family still passes _check with the colours it had
CopyFlippedAlone ==
    /\ res.of = "copy"
    /\ ~res.same
    /\ ~fam.mutable
    /\ last.op = "flip"
    /\ last.arg.who = "result"
    /\ last.exc = ""
    /\ res.val.colouring # fam.colouring
    /\ res.val.subspace # fam.subspace
    /\ family_check(fam) = ""

\* C24: every triple of flips names its edge by the smaller half-edge of
\* the pair under the edge involution of start, and in the labels of start:
\* the log replayed on start arrives at end.  This holds whichever half-edge
\* was given to flip, before or after a relabel, and for the triples
\* appended by *=, * and **
FlipsCanonical ==
    /\ \A i \in 1..Len(F.flips) :
        /\ F.flips[i][1] \in 0..(F.start.n - 1)
        /\ F.flips[i][1] <= F.start.ep[F.flips[i][1]]
    /\ _check(F) = ""

\* C24 happens: after a relabelling that moves edges flip was given the
\* larger half-edge of a pair, and logged another edge than the one given
\* and than its other half
LargerHalfFlipped ==
    /\ last.op = "flip"
    /\ last.exc = ""
    /\ last.arg.e > F.start.ep[last.arg.e]
    /\ ~perm_is_one(F.relabelling)
    /\ F.flips[Len(F.flips)][1] \notin {last.arg.e, F.start.ep[last.arg.e]}

\* the flips of S whose edge the relabelling takes to the edge e of end
FlipsOnto(S, e) ==
    { i \in 1..Len(S.flips) :
        Representative(S.end, S.relabelling[S.flips[i][1]]) = e }

\* the largest element of a set of numbers
Latest(I) == CHOOSE i \in I : \A j \in I : j <= i

\* C26: end_colouring() returns one colour for each edge of end: the
\* colour in end when that is not PURPLE; for a PURPLE edge onto which the
\* relabelling takes logged flips, the new colour of the last of them; for
\* a PURPLE edge no flip is taken onto, the colour start gives to its
\* preimage, PURPLE included
EndColouringRule ==
    last.op = "end_colouring" =>
        /\ last.exc = ""
        /\ DOMAIN last.ret = 0..(num_edges(F.end) - 1)
        /\ \A e \in 0..(num_edges(F.end) - 1) :
            last.ret[e] =
                IF F.end.colouring[e] # PURPLE
                THEN F.end.colouring[e]
                ELSE IF FlipsOnto(F, e) # {}
                THEN F.flips[Latest(FlipsOnto(F, e))][2]
                ELSE F.start.colouring[perm_preimage(F.relabelling, e)]

\* C26 happens: end_colouring() was asked after a relabelling that moves
\* edges, of a log that takes onto one PURPLE edge of end two flips with
\* different new colours
ColouredByLatest ==
    /\ last.op = "end_colouring"
    /\ ~perm_is_one(F.relabelling)
    /\ \E e \in 0..(num_edges(F.end) - 1) :
        /\ F.end.colouring[e] = PURPLE
        /\ Cardinality({F.flips[i][2] : i \in FlipsOnto(F, e)}) = 2
        /\ last.ret[e] = F.flips[Latest(FlipsOnto(F, e))][2]

\* the flips of S that the relabelling takes onto the edge of the half-edge x
FlipsOntoPair(S, x) ==
    { i \in 1..Len(S.flips) :
        S.relabelling[S.flips[i][1]] \in {x, S.start.ep[x]} }

\* C27: for F with no PURPLE edge and flips (e_1,c_1,o_1)..(e_k,c_k,o_k),
\* inverse() returns a sequence that starts at the rotated end of F, has k
\* flips, the j-th on the representative of relabelling[e_(k+1-j)] with the
\* colour opposite to o_(k+1-j), and whose relabelling takes x to the
\* preimage under F.relabelling of x, or of the other half of x when the
\* edge of x is flipped an odd number of times; every old colour of the log
\* of F is RED or BLUE when inverse() returns
InverseRule ==
    (last.op = "inverse" /\ ~any_colour(F.start, PURPLE)) =>
        /\ last.exc = ""
        /\ last.ret.start = tri_rotate(F.end)
        /\ Len(last.ret.flips) = Len(F.flips)
        /\ \A j \in 1..Len(F.flips) :
            /\ last.ret.flips[j][1] =
                  Representative(F.start, F.relabelling[F.flips[Len(F.flips) + 1 - j][1]])
            /\ last.ret.flips[j][2] = Turned(F.flips[Len(F.flips) + 1 - j][3])
            /\ F.flips[j][3] \in {RED, BLUE}
        /\ \A x \in 0..(F.start.n - 1) :
            last.ret.relabelling[x] =
                perm_preimage(F.relabelling,
                              IF Cardinality(FlipsOntoPair(F, x)) % 2 = 1
                              THEN F.start.ep[x]
                              ELSE x)

\* C27 happens: inverse() returned for a sequence with no PURPLE edge, a
\* relabelling that moves edges, one edge flipped twice and another once
InverseOfLongLog ==
    /\ last.op = "inverse"
    /\ last.exc = ""
    /\ ~any_colour(F.start, PURPLE)
    /\ ~perm_is_one(F.relabelling)
    /\ \E x, y \in 0..(F.start.n - 1) :
        /\ Cardinality(FlipsOntoPair(F, x)) = 2
        /\ Cardinality(FlipsOntoPair(F, y)) = 1

\* C29: for closed F and k >= 1, F ** k is returned and unflipped_edges()
\* gives for it the set of edges it gives for F
UnflippedOfPower ==
    (/\ last.op = "__pow__"
     /\ is_closed(last.arg.self)
     /\ last.arg.k >= 1) =>
        /\ last.exc = ""
        /\ unflipped_edges(F).exc = ""
        /\ unflipped_edges(F) = unflipped_edges(last.arg.self)

\* C29 happens: a closed sequence with flips and a relabelling that moves
\* edges was raised to a power above 1, and some but not all of the edges
\* are unflipped
PowerKeptUnflipped ==
    /\ last.op = "__pow__"
    /\ last.exc = ""
    /\ last.arg.k >= 2
    /\ Len(last.arg.self.flips) >= 1
    /\ ~perm_is_one(last.arg.self.relabelling)
    /\ unflipped_edges(F).val # {}
    /\ unflipped_edges(F).val # 0..(num_edges(F.start) - 1)

\* C25: swap(e) leaves start and flips as they were, logs no flip, and the
\* _check that ends it passes: the log replayed on start with the
\* relabelling arrives at end, whatever the relabelling was before and also
\* when swap(e) is called twice in a row
SwapChecked ==
    last.op = "swap" =>
        /\ F.start = last.arg.self.start
        /\ F.flips = last.arg.self.flips
        /\ last.exc = ""
        /\ _check(F) = ""

\* C25 happens: swap(e) was called on a sequence that passes _check and
\* whose relabelling already exchanges the half-edges of e, as it does
\* after swap(e); the relabelling is the same bijection as before, end has
\* the labels exchanged back, and the _check of swap fails
SwappedTwice ==
    /\ last.op = "swap"
    /\ _check(last.arg.self) = ""
    /\ last.arg.self.relabelling[last.arg.e] = last.arg.self.end.ep[last.arg.e]
    /\ perm_check(F.relabelling, F.start.n)
    /\ F.relabelling = last.arg.self.relabelling
    /\ F.end # last.arg.self.end
    /\ last.exc = "AssertionError"

\* the sign of a number
Sign(x) == IF x > 0 THEN 1 ELSE IF x < 0 THEN -1 ELSE 0

\* the signs of the vector a turned by an infinitesimal angle, counter-
\* clockwise for rotate = 1 and clockwise for rotate = -1
TurnedSigns(a, rotate) ==
    <<IF a[1] # 0 THEN Sign(a[1]) ELSE 0 - rotate * Sign(a[2]),
      IF a[2] # 0 THEN Sign(a[2]) ELSE rotate * Sign(a[1])>>

\* C23: oriented_slope raises ValueError for the zero vector; for a vector
\* off the axes it returns the signs of the coordinates whatever rotate is;
\* for a vector on an axis it returns 0 for rotate = 0, the signs of the
\* vector turned infinitesimally counterclockwise for rotate = 1 and
\* clockwise for rotate = -1, and raises ValueError for another rotate; for
\* rotate 1 or -1 the answer for -a is the negation of the answer for a, so
\* that the two half-edges of an edge get one colour and opposite
\* x-orientations
SlopeRule ==
    /\ last.op = "oriented_slope" =>
        /\ last.exc = (IF last.arg.a = <<0, 0>>
                       \/ (/\ 0 \in {last.arg.a[1], last.arg.a[2]}
                           /\ last.arg.rotate \notin {-1, 0, 1})
                       THEN "ValueError" ELSE "")
        /\ last.exc = "" =>
            /\ last.ret = (IF 0 \in {last.arg.a[1], last.arg.a[2]} /\ last.arg.rotate = 0
                           THEN NoSlope
                           ELSE TurnedSigns(last.arg.a, last.arg.rotate))
            /\ last.arg.rotate \in {1, -1} =>
                oriented_slope(<<0 - last.arg.a[1], 0 - last.arg.a[2]>>, last.arg.rotate)
                    = Return(<<0 - last.ret[1], 0 - last.ret[2]>>)
    /\ (last.op = "half_edge" /\ last.arg.a # <<0, 0>>) =>
        /\ last.exc = ""
        /\ half_edge(<<0 - last.arg.a[1], 0 - last.arg.a[2]>>).val.colour = last.ret.colour
        /\ half_edge(<<0 - last.arg.a[1], 0 - last.arg.a[2]>>).val.x_orientation
                = 0 - last.ret.x_orientation

\* C23 happens: the vector (0, -2) turned clockwise
VerticalTurnedClockwise ==
    /\ last.op = "oriented_slope"
    /\ last.arg.a = <<0, -2>>
    /\ last.arg.rotate = -1
    /\ last.ret = <<-1, -1>>

\* C30: subspace_cmp(A, B), when it returns, gives -1, 0 or 1, gives 0
\* exactly when A and B have the same echelon form, and gives for (B, A)
\* the opposite of what it gives for (A, B); two subspaces with different
\* numbers of rows do not compare as equal, and _richcmp_ does not answer
\* "==" with true for two families of different dimension
ComparisonConsistent ==
    /\ (last.op = "subspace_cmp" /\ last.exc = "") =>
        /\ last.ret \in {-1, 0, 1}
        /\ (last.ret = 0) = (echelon_form(last.arg.A) = echelon_form(last.arg.B))
        /\ subspace_cmp(last.arg.B, last.arg.A) = Return(0 - last.ret)
    /\ (/\ last.op = "_richcmp_"
        /\ last.arg.op = "=="
        /\ Len(last.arg.self.subspace.rows) # Len(last.arg.other.subspace.rows)) =>
        ~(last.exc = "" /\ last.ret = TRUE)

\* C30 happens: subspace_cmp was given a subspace of dimension 2 and one of
\* dimension 1 of the same space, both of full rank, and returned 0
DimensionsComparedEqual ==
    /\ last.op = "subspace_cmp"
    /\ last.exc = ""
    /\ Len(last.arg.A.rows) = 2
    /\ Len(last.arg.B.rows) = 1
    /\ last.ret = 0

\* the vectors with whole coordinates from 0 to MaxPoint that are sums of
\* multiples of the rows of the subspace of L
NonNegative(L) ==
    { x \in [0..(L.subspace.ncols - 1) -> 0..MaxPoint] :
        echelon_form([L.subspace EXCEPT !.rows = Append(@, row_of(x))]).rows
            = echelon_form(L.subspace).rows
              \o << [j \in 0..(L.subspace.ncols - 1) |-> Zero] >> }

\* C21: is_core() answers true exactly when the non-negative vectors of
\* the subspace span a space of the dimension of the family: for one row,
\* one of them is not zero, for two rows, two of them are not proportional;
\* on the torus (0,1,2)(~0,~1,~2) coloured RRB the family of (1,0,-1) is
\* not core and the family of all the solutions of the switch condition is
IsCoreRule ==
    last.op = "is_core" =>
        /\ last.exc = ""
        /\ Len(fam.subspace.rows) \in {1, 2}
        /\ Len(fam.subspace.rows) = 1 =>
            last.ret = (\E y \in NonNegative(fam) : \E j \in DOMAIN y : y[j] # 0)
        /\ Len(fam.subspace.rows) = 2 =>
            last.ret = (\E y, z \in NonNegative(fam) :
                            \E i, j \in DOMAIN y : y[i] * z[j] # y[j] * z[i])
        /\ (/\ triangulation_of(fam) = Torus(<<RED, RED, BLUE>>)
            /\ fam.subspace = matrix(3, << <<1, 0, -1>> >>)) => ~last.ret
        /\ (/\ triangulation_of(fam) = Torus(<<RED, RED, BLUE>>)
            /\ Len(fam.subspace.rows) = 2) => last.ret

\* C21 happens: is_core() answered false for the family of (1,0,-1) on the
\* torus coloured RRB
NotCore ==
    /\ last.op = "is_core"
    /\ triangulation_of(fam) = Torus(<<RED, RED, BLUE>>)
    /\ fam.subspace = matrix(3, << <<1, 0, -1>> >>)
    /\ last.ret = FALSE


\* the calls that change the sequence, and the calls that only ask
Mutators == {"flip", "relabel", "swap", "__imul__"}

Queries ==
    {"flips", "is_closed", "unflipped_edges", "is_pseudo_anosov", "end_colouring",
     "coloured_start", "inverse", "matrix", "start", "end"}

====
